---- MODULE Spec2Model ----
(***************************************************************************)
(* Model of the yamldocs layout and flow-resolution core:                  *)
(*   - footer resolution (generators/footer-utils.ts, kept under           *)
(*     src/unnamed/part_000 lines 304-462),                                *)
(*   - the PDF generation run (src/src/generators/pdf/index.ts).           *)
(*                                                                         *)
(* Representation of JavaScript values                                     *)
(*   string      a sequence of tokens.  A token is either a template       *)
(*               variable ("{{title}}", ...), one of the replacement       *)
(*               patterns of String.prototype.replace ("$&", "$$") or a    *)
(*               literal fragment.  The fragments used here never contain  *)
(*               a brace and no fragment is a concatenation of others, so  *)
(*               two token sequences are equal iff the strings are.        *)
(*               The empty string is << >>.                                *)
(*   T|undefined None (<< >>) or Some(v) (<< v >>).  An optional property  *)
(*               of an object is a record field holding such a value.      *)
(***************************************************************************)
EXTENDS Integers, Sequences, FiniteSets, TLC

VARIABLES
    footerArg,     \* resolveFooterConfig: argument footer (FooterConfig | undefined)
    formArg,       \* resolveFooterConfig: argument form (FormMetadata)
    today,         \* index of the day new Date().toLocaleDateString() reports
    resolved,      \* the ResolvedFooter returned, None before the call
    calledOn,      \* the day on which resolveFooterConfig ran (0 before the call)
    rendered,      \* the slots after resolvePageVariables, None before a page is drawn
    again,         \* the ResolvedFooter of a second call with the same arguments
    againOn,       \* the day of the second call (0 before it)
    wrapArgs,      \* wrapText: the arguments [text, maxWidth, fontSize], None when no call
    wrapLines,     \* wrapText: the lines returned, None before the return
    hexArg,        \* hexToRgb: the argument hex, None when no call
    hexOut,        \* hexToRgb: the RGB returned, None before the return
    coverArgs,     \* cover page: [formMeta, coverPage, files], None when no call
    coverOut,      \* cover page: what each of the three backends emitted
    iconArg,       \* social icon: [platform, file], None when no call
    iconOut,       \* social icon: the bytes loaded and what the footer drew
    pair,          \* two concurrent generatePdf calls: the local variables of each
    heap,          \* two concurrent calls: the LayoutContext objects, by reference
    shared,        \* two concurrent calls: the schema object both were given
    schema,        \* generatePdf: options.schema (ParsedFormSchema), None when no run
    pc,            \* generatePdf: position of the run in the function body
    ctx,           \* generatePdf: the LayoutContext of the run
    resolvedFooter,    \* generatePdf: const resolvedFooter
    contentBaselineY,  \* generatePdf: const contentBaselineY
    pageOffset,    \* generatePdf: const pageOffset
    fieldCount,    \* generatePdf: let fieldCount
    placed,        \* the addFieldToDocument calls made so far, in order
    result,        \* the GeneratedPdf returned, None before the return
    drawLog,       \* generatePdf: the start and the end of each drawing call, in order
    decorated,     \* the physical page indices drawHeader / drawFooter drew on
    overflowed,    \* whether the content ran over the page and advanced to a new one
    warnings,      \* console.warn: the schema positions of the fields warned about
    run,           \* the number of the generatePdf call on this schema object (0: none)
    original,      \* the schema as it was before the first call
    written,       \* generateAndSavePdf: whether savePdf has written the output file
    error,         \* what rejected the generatePdf promise: "none" while nothing did
    stylesheet,    \* generatePdf: let stylesheet, None before it is loaded
    styleFile      \* the state of the file schema.form.stylesheet names

fvars == <<footerArg, formArg, today, resolved, calledOn, rendered, again, againOn>>

wvars == <<wrapArgs, wrapLines>>

gvars == <<schema, pc, ctx, resolvedFooter, contentBaselineY, pageOffset,
           fieldCount, placed, result, drawLog, decorated, overflowed, warnings,
           run, original, written, error, stylesheet, styleFile>>

vars == <<footerArg, formArg, today, resolved, calledOn, rendered, again, againOn,
          wrapArgs, wrapLines, hexArg, hexOut, coverArgs, coverOut, iconArg, iconOut,
          pair, heap, shared,
          schema, pc, ctx, resolvedFooter, contentBaselineY, pageOffset,
          fieldCount, placed, result, drawLog, decorated, overflowed, warnings,
          run, original, written, error, stylesheet, styleFile>>

(***************************************************************************)
(* Optional values and strings                                             *)
(***************************************************************************)
None == << >>

Some(v) == << v >>

\* no wrapText call: the values of its variables under the other specifications
NoWrap == wrapArgs = None /\ wrapLines = None

cvars == <<coverArgs, coverOut, iconArg, iconOut>>

pvars == <<pair, heap, shared>>

xvars == <<hexArg, hexOut, coverArgs, coverOut, iconArg, iconOut, pair, heap, shared>>

NoPair == pair = None /\ heap = None /\ shared = None

NoCover ==
    /\ coverArgs = None /\ coverOut = None /\ iconArg = None /\ iconOut = None
    /\ NoPair

NoHex == hexArg = None /\ hexOut = None

\* v ?? d
OrElse(v, d) == IF v = None THEN d ELSE v[1]

\* truthiness of an optional string: undefined and '' are falsy
TruthyStr(v) == v # None /\ v[1] # << >>

\* truthiness of an optional boolean
TruthyBool(v) == v # None /\ v[1] = TRUE

RECURSIVE Flatten(_)
\* concatenation of a sequence of strings
Flatten(ss) == IF ss = << >> THEN << >> ELSE Head(ss) \o Flatten(Tail(ss))

(***************************************************************************)
(* String.prototype.replace(/\{\{name\}\}/g, replacement)                   *)
(* The second argument is a replacement STRING, so the engine expands      *)
(* the patterns "$$" (a literal "$") and "$&" (the matched substring)      *)
(* inside it before inserting it.                                          *)
(***************************************************************************)
ExpandReplacement(replacement, matched) ==
    Flatten([i \in DOMAIN replacement |->
        IF replacement[i] = "$&" THEN << matched >>
        ELSE IF replacement[i] = "$$" THEN << "$" >>
        ELSE << replacement[i] >>])

\* every occurrence of the variable is replaced, left to right
ReplaceAll(text, variable, replacement) ==
    Flatten([i \in DOMAIN text |->
        IF text[i] = variable THEN ExpandReplacement(replacement, variable)
        ELSE << text[i] >>])

\* new Date().toLocaleDateString() on day d
DayNames == << "11/6/2026", "11/7/2026", "11/8/2026" >>

toLocaleDateString(d) == << DayNames[d] >>

\* String(n) for the page numbers that occur
DigitNames == << "1", "2", "3", "4", "5", "6", "7", "8", "9" >>

String(n) == << DigitNames[n] >>

\* mutant: the author variable is filled with the date
resolveStaticVariablesAuthorDate(text, form, day) ==
    IF text = << >> THEN text
    ELSE LET t1 == ReplaceAll(text, "{{title}}", OrElse(form.title, << >>))
             t2 == ReplaceAll(t1, "{{version}}", OrElse(form.version, << >>))
             t3 == ReplaceAll(t2, "{{author}}", toLocaleDateString(day))
         IN  ReplaceAll(t3, "{{date}}", toLocaleDateString(day))

resolveStaticVariables(text, form, day) ==
    IF text = << >> THEN text
    ELSE LET t1 == ReplaceAll(text, "{{title}}", OrElse(form.title, << >>))
             t2 == ReplaceAll(t1, "{{version}}", OrElse(form.version, << >>))
             t3 == ReplaceAll(t2, "{{author}}", OrElse(form.author, << >>))
         IN  ReplaceAll(t3, "{{date}}", toLocaleDateString(day))

resolvePageVariables(text, pageNum, totalPages) ==
    IF text = << >> THEN text
    ELSE ReplaceAll(ReplaceAll(text, "{{page}}", String(pageNum)),
                    "{{pages}}", String(totalPages))

(***************************************************************************)
(* resolveFooterConfig                                                     *)
(***************************************************************************)
Platforms == {"youtube", "x", "facebook", "linkedin", "github", "website"}

NoSocialLinks == [p \in Platforms |-> None]

DefaultSeparator == [enabled |-> FALSE, color |-> "#cccccc", thickness |-> "0.5"]

PageNumberTemplate == << "Page ", "{{page}}", " of ", "{{pages}}" >>

VersionText(form) == << "Version " >> \o form.version[1]

\* lines 358-360: explicit slots are seeded first
SeedSlots(footer) ==
    [left   |-> OrElse(footer.left, << >>),
     center |-> OrElse(footer.center, << >>),
     right  |-> OrElse(footer.right, << >>)]

\* mutant: the shorthands overwrite a slot that is already set
FillShorthandsOverwrite(footer, s) ==
    [left   |-> IF TruthyStr(footer.copyright) THEN footer.copyright[1] ELSE s.left,
     center |-> IF TruthyStr(footer.text) THEN footer.text[1] ELSE s.center,
     right  |-> IF TruthyBool(footer.showPageNumbers) THEN PageNumberTemplate ELSE s.right]

\* lines 362-375: text, copyright, showPageNumbers
FillShorthands(footer, s) ==
    [left   |-> IF TruthyStr(footer.copyright) /\ s.left = << >>
                THEN footer.copyright[1] ELSE s.left,
     center |-> IF TruthyStr(footer.text) /\ s.center = << >>
                THEN footer.text[1] ELSE s.center,
     right  |-> IF TruthyBool(footer.showPageNumbers) /\ s.right = << >>
                THEN PageNumberTemplate ELSE s.right]

\* mutant: the version text replaces center
AppendVersionOverwrite(footer, form, s) ==
    IF TruthyBool(footer.showVersion) /\ TruthyStr(form.version)
    THEN [s EXCEPT !.center = VersionText(form)]
    ELSE s

\* lines 377-381: showVersion appends to center
AppendVersion(footer, form, s) ==
    IF TruthyBool(footer.showVersion) /\ TruthyStr(form.version)
    THEN [s EXCEPT !.center = IF s.center # << >>
                              THEN s.center \o << " - " >> \o VersionText(form)
                              ELSE VersionText(form)]
    ELSE s

\* mutant: the last resort replaces center instead of appending to it
InsertDateOverwrite(footer, s) ==
    IF TruthyBool(footer.showDate)
    THEN IF s.left = << >> /\ ~TruthyStr(footer.copyright)
         THEN [s EXCEPT !.left = << "{{date}}" >>]
         ELSE IF s.right = << >> /\ ~TruthyBool(footer.showPageNumbers)
         THEN [s EXCEPT !.right = << "{{date}}" >>]
         ELSE [s EXCEPT !.center = << "{{date}}" >>]
    ELSE s

\* lines 383-393: showDate
InsertDate(footer, s) ==
    IF TruthyBool(footer.showDate)
    THEN IF s.left = << >> /\ ~TruthyStr(footer.copyright)
         THEN [s EXCEPT !.left = << "{{date}}" >>]
         ELSE IF s.right = << >> /\ ~TruthyBool(footer.showPageNumbers)
         THEN [s EXCEPT !.right = << "{{date}}" >>]
         ELSE [s EXCEPT !.center = IF s.center # << >>
                                   THEN s.center \o << " | ", "{{date}}" >>
                                   ELSE << "{{date}}" >>]
    ELSE s

\* the slots as they stand at line 394, before the static variables are resolved
SlotsBeforeResolve(footer, form) ==
    InsertDate(footer, AppendVersion(footer, form, FillShorthands(footer, SeedSlots(footer))))

\* mutant: every key that is present is copied, an empty URL too
FilterSocialLinksKeepEmpty(footer) ==
    IF footer.socialLinks # None THEN footer.socialLinks[1] ELSE NoSocialLinks

\* lines 400-410: only non-empty URLs are copied
FilterSocialLinks(footer) ==
    IF footer.socialLinks # None
    THEN LET src == footer.socialLinks[1]
         IN  [p \in Platforms |-> IF TruthyStr(src[p]) THEN src[p] ELSE None]
    ELSE NoSocialLinks

\* Object.keys(socialLinks)
Keys(links) == {p \in Platforms : links[p] # None}

ResolveSeparator(footer) ==
    IF footer.separator = None THEN DefaultSeparator
    ELSE LET sep == footer.separator[1]
         IN  [enabled   |-> OrElse(sep.enabled, FALSE),
              color     |-> OrElse(sep.color, "#cccccc"),
              thickness |-> OrElse(sep.thickness, "0.5")]

\* mutant: the social links are not counted as content
HasContentTextOnly(left, center, right, links) ==
    left # << >> \/ center # << >> \/ right # << >>

\* line 412
HasContent(left, center, right, links) ==
    left # << >> \/ center # << >> \/ right # << >> \/ Cardinality(Keys(links)) > 0

\* mutant: the legacy footer is enabled without looking at the version
LegacyFooterAlwaysEnabled(form) ==
    [enabled     |-> TRUE,
     left        |-> << >>,
     center      |-> << "Version " >> \o OrElse(form.version, << >>),
     right       |-> << >>,
     separator   |-> DefaultSeparator,
     socialLinks |-> NoSocialLinks]

\* lines 335-344: legacy fallback
LegacyFooter(form) ==
    [enabled     |-> TruthyStr(form.version),
     left        |-> << >>,
     center      |-> IF TruthyStr(form.version) THEN VersionText(form) ELSE << >>,
     right       |-> << >>,
     separator   |-> DefaultSeparator,
     socialLinks |-> NoSocialLinks]

\* mutant: the switch is honoured only for a footer without text
ExplicitlyDisabledUnlessText(footer) ==
    footer.enabled = Some(FALSE) /\ ~TruthyStr(footer.text)

\* line 347: footer.enabled === false
ExplicitlyDisabled(footer) == footer.enabled = Some(FALSE)

\* lines 348-355
DisabledFooter ==
    [enabled     |-> FALSE,
     left        |-> << >>,
     center      |-> << >>,
     right       |-> << >>,
     separator   |-> DefaultSeparator,
     socialLinks |-> NoSocialLinks]

resolveFooterConfig(footer, form, day) ==
    IF footer = None THEN LegacyFooter(form)
    ELSE IF ExplicitlyDisabled(footer[1]) THEN DisabledFooter
    ELSE LET f      == footer[1]
             s      == SlotsBeforeResolve(f, form)
             left   == resolveStaticVariables(s.left, form, day)
             center == resolveStaticVariables(s.center, form, day)
             right  == resolveStaticVariables(s.right, form, day)
             links  == FilterSocialLinks(f)
         IN  [enabled     |-> HasContent(left, center, right, links),
              left        |-> left,
              center      |-> center,
              right       |-> right,
              separator   |-> ResolveSeparator(f),
              socialLinks |-> links]

(***************************************************************************)
(* Inputs of the footer specification                                      *)
(***************************************************************************)
MaxDay == 2

MaxFooterPages == 2

UndefinedFooter ==
    [enabled |-> None, left |-> None, center |-> None, right |-> None,
     text |-> None, copyright |-> None, showPageNumbers |-> None,
     showVersion |-> None, showDate |-> None, separator |-> None,
     socialLinks |-> None]

Flags == {None, Some(TRUE)}

\* explicit slots against the shorthands
SlotFooters ==
    [enabled : {None, Some(TRUE), Some(FALSE)},
     left : {None, Some(<< "L" >>)},
     center : {None, Some(<< >>), Some(<< "C" >>)},
     right : {None, Some(<< "R" >>)},
     text : {None, Some(<< "text" >>)},
     copyright : {None, Some(<< "(c) ACME" >>)},
     showPageNumbers : Flags, showVersion : Flags, showDate : Flags,
     separator : {None},
     socialLinks : {None}]

SlotForms ==
    [title : {Some(<< "Form" >>)},
     version : {None, Some(<< >>), Some(<< "2.0" >>)},
     author : {None}]

\* texts that use the template variables
TemplateFooters ==
    [enabled : {None},
     left : {None, Some(<< "{{title}}", " by ", "{{author}}" >>)},
     center : {None, Some(<< "v", "{{version}}", " ", "{{date}}" >>),
               Some(<< "{{title}}", "{{title}}" >>)},
     right : {None, Some(<< "{{page}}", "/", "{{pages}}", "/", "{{page}}" >>)},
     text : {None},
     copyright : {None},
     showPageNumbers : Flags, showVersion : Flags, showDate : Flags,
     separator : {None, Some([enabled |-> Some(TRUE), color |-> None, thickness |-> None])},
     socialLinks : {None}]

TemplateForms ==
    [title : {None, Some(<< "Form" >>), Some(<< "$&" >>), Some(<< "US", "$$" >>)},
     version : {None, Some(<< "2.0" >>)},
     author : {None, Some(<< "Ann" >>)}]

\* social links: every platform absent, empty or configured
Url(p) == << "https://", p >>

SocialFooters ==
    {[UndefinedFooter EXCEPT !.enabled = e, !.left = l, !.socialLinks = Some(links)] :
        e \in {None, Some(FALSE)}, l \in {None, Some(<< "L" >>)},
        links \in [Platforms -> {None, Some(<< >>)}]
                  \cup {[p \in Platforms |-> IF p \in ps THEN Some(Url(p))
                                             ELSE IF p \in es THEN Some(<< >>) ELSE None] :
                        ps \in SUBSET Platforms, es \in {{}, {"x", "github"}}}}

\* every setting at once, enabled or explicitly disabled
FullFooters ==
    {[enabled |-> e, left |-> Some(<< "L" >>), center |-> Some(<< "C" >>),
      right |-> Some(<< "R" >>), text |-> Some(<< "text" >>),
      copyright |-> Some(<< "(c) ACME" >>), showPageNumbers |-> Some(TRUE),
      showVersion |-> Some(TRUE), showDate |-> Some(TRUE),
      separator |-> Some([enabled |-> Some(TRUE), color |-> Some("#000000"),
                          thickness |-> Some("1")]),
      socialLinks |-> Some([p \in Platforms |-> Some(Url(p))])] :
        e \in {None, Some(TRUE), Some(FALSE)}}

FooterInputs ==
    {<< Some(f), m >> : f \in SlotFooters, m \in SlotForms}
    \cup {<< Some(f), m >> : f \in TemplateFooters, m \in TemplateForms}
    \cup {<< Some(f), m >> : f \in SocialFooters, m \in {[title |-> Some(<< "Form" >>), version |-> None, author |-> None]}}
    \cup {<< Some(f), m >> : f \in FullFooters, m \in SlotForms}
    \cup {<< None, m >> : m \in SlotForms \cup TemplateForms}

(***************************************************************************)
(* generatePdf (src/src/generators/pdf/index.ts)                           *)
(***************************************************************************)
Min(a, b) == IF a <= b THEN a ELSE b

\* no generatePdf run: the values of the run's variables under SpecFooter
NoRun ==
    /\ schema = None
    /\ pc = "idle"
    /\ ctx = None
    /\ resolvedFooter = None
    /\ contentBaselineY = 0
    /\ pageOffset = 0
    /\ fieldCount = 0
    /\ placed = << >>
    /\ result = None
    /\ drawLog = << >>
    /\ decorated = [header |-> None, footer |-> None]
    /\ overflowed = FALSE
    /\ warnings = << >>
    /\ run = 0
    /\ original = None
    /\ written = FALSE
    /\ error = "none"
    /\ stylesheet = None
    /\ styleFile = "absent"

\* layout.ts, initializeLayout: cursor.y starts at pageHeight - margin.top
PageTop == 742

\* layout.ts, initializeLayout: totalPages pages are allocated, the cursor is
\* at the top margin.  A page handle is the number of the page's creation.
initializeLayout(totalPages) ==
    [pages  |-> [i \in 1..totalPages |-> i],
     cursor |-> [x |-> 0, y |-> PageTop]]

\* layout.ts, nextPage: appends a new physical page and resets the cursor to
\* the top margin
nextPage(c) ==
    [pages  |-> Append(c.pages, Len(c.pages) + 1),
     cursor |-> [x |-> c.cursor.x, y |-> PageTop]]

\* layout.ts drawTitle / content.ts drawSchemaContent: the cursor moves down
\* by the height of what was drawn; content that overflows the page continues
\* on a new page
drawBlock(c, height, overflows) ==
    LET c1 == IF overflows THEN nextPage(c) ELSE c
    IN  [c1 EXCEPT !.cursor.y = c1.cursor.y - height]

\* mutant: every field is shifted by the baseline, whatever its page
adjustEveryField(field, baselineY) ==
    [field EXCEPT !.position.y = baselineY + field.position.y]

\* lines 152-168
adjustFieldPosition(field, baselineY) ==
    IF field.page # 1 THEN field
    ELSE [field EXCEPT !.position.y = baselineY + field.position.y]

\* mutant: the position is written into the field object that was passed in
argumentAdjustedInPlace(field, baselineY) ==
    IF field.page # 1 THEN field
    ELSE [field EXCEPT !.position.y = baselineY + field.position.y]

\* lines 161-167: the spread copies build a new object and a new position,
\* so the object passed in keeps its value
argumentAfterAdjust(field, baselineY) == field

\* mutant: the index is not clamped to the last page
pageIndexUnclamped(c, field, offset) == field.page - 1 + offset

\* mutant: the cover page is not counted in the index
pageIndexNoOffset(c, field, offset) == Min(field.page - 1, Len(c.pages) - 1)

\* line 183: Math.min(field.page - 1 + pageOffset, ctx.pages.length - 1)
pageIndexOf(c, field, offset) == Min(field.page - 1 + offset, Len(c.pages) - 1)

\* line 187: the field types with a case label
KnownTypes == {"text", "checkbox", "radio", "dropdown", "textarea", "signature"}

(***************************************************************************)
(* Inputs of a generation run                                              *)
(***************************************************************************)
MaxPages == 2

MaxFields == 2

MaxFieldPage == 3

FieldYs == {-50, 20}

FieldTypes == {"text", "barcode"}

ContentHeights == {42, 92}

Fields ==
    [type : FieldTypes, page : 1..MaxFieldPage,
     position : [x : {72}, y : FieldYs]]

FieldLists == UNION {[1..n -> Fields] : n \in 0..MaxFields}

RunFooters ==
    {None,
     Some([UndefinedFooter EXCEPT !.showPageNumbers = Some(TRUE),
                                  !.showDate = Some(TRUE)])}

\* schemas that declare no page count or a positive one
PlainSchemas ==
    [form : [title : {Some(<< "Form" >>)}, version : {Some(<< "2.0" >>)},
             author : {None}, stylesheet : {None}, pages : {None} \cup {Some(n) : n \in 1..MaxPages}],
     coverPage : BOOLEAN,
     hasContent : BOOLEAN,
     footer : RunFooters,
     fields : FieldLists]

\* schemas that declare 0 pages.  They are given a cover page: without one
\* the document has no page at all for the title to be drawn on.
ZeroPageSchemas ==
    [form : [title : {Some(<< "Form" >>)}, version : {Some(<< "2.0" >>)},
             author : {None}, stylesheet : {None}, pages : {Some(0)}],
     coverPage : {TRUE},
     hasContent : BOOLEAN,
     footer : {None},
     fields : FieldLists]

\* schemas that name a stylesheet file
StyledSchemas ==
    [form : [title : {Some(<< "Form" >>)}, version : {Some(<< "2.0" >>)},
             author : {None}, stylesheet : {Some(<< "style.yaml" >>)},
             pages : {None}],
     coverPage : BOOLEAN,
     hasContent : {FALSE},
     footer : {None},
     fields : UNION {[1..n -> [type : {"text"}, page : 1..2,
                               position : [x : {72}, y : FieldYs]]] : n \in 0..1}]

Schemas == PlainSchemas \cup ZeroPageSchemas \cup StyledSchemas

\* what the file system holds under the stylesheet path
StyleFiles == {"complete", "partial", "missing", "unreadable"}

(***************************************************************************)
(* One generatePdf run, one action per awaited step                        *)
(***************************************************************************)
Init ==
    /\ schema \in {Some(sch) : sch \in Schemas}
    /\ pc = "start"
    /\ ctx = None
    /\ resolvedFooter = None
    /\ contentBaselineY = 0
    /\ pageOffset = 0
    /\ fieldCount = 0
    /\ placed = << >>
    /\ result = None
    /\ drawLog = << >>
    /\ decorated = [header |-> None, footer |-> None]
    /\ overflowed = FALSE
    /\ warnings = << >>
    /\ run = 1
    /\ original = schema
    /\ written = FALSE
    /\ error = "none"
    /\ stylesheet = None
    /\ styleFile \in IF schema[1].form.stylesheet = None THEN {"absent"} ELSE StyleFiles
    /\ footerArg = None
    /\ formArg = None
    /\ today \in 1..MaxDay
    /\ resolved = None
    /\ calledOn = 0
    /\ rendered = None
    /\ again = None
    /\ againOn = 0
    /\ NoWrap
    /\ NoHex
    /\ NoCover

hasCoverPage == schema[1].coverPage

\* part_001 lines 279-293 (createCoverPageSection): the keys of the section
\* properties of the DOCX cover section
coverSectionProperties == {"page"}

\* html/coverpage.ts lines 151-154 (getCoverPageCss): the elements of
\* .cover-page that get display: none
coverPageHidden == {"header", "footer"}

\* mutant: the header and the footer start on the first physical page
startPageZero(hasCover) == 0

\* line 104: const startPage = hasCoverPage ? 1 : 0
startPage(hasCover) == IF hasCover THEN 1 ELSE 0

\* layout.ts drawHeader / drawFooter: every page from options.startPage on is
\* written to, the pages before it are skipped
decoratedPages(c, start) == start..(Len(c.pages) - 1)

\* mutant: the call is made and its promise is dropped, the run goes on
\* while the operation is still in progress
fireAndForget(log, op, n) == Append(log, [ev |-> "start", op |-> op, n |-> n])

\* lines 98, 105, 108, 114, 117, 131: await f(...) starts the operation and
\* resumes the run when it has finished
await(log, op, n) ==
    log \o << [ev |-> "start", op |-> op, n |-> n],
              [ev |-> "end", op |-> op, n |-> n] >>

\* mutant: a type without a case label throws
switchUnknownThrows(type) ==
    IF type \in KnownTypes
    THEN [drawn |-> TRUE, warned |-> FALSE, throws |-> FALSE]
    ELSE [drawn |-> FALSE, warned |-> FALSE, throws |-> TRUE]

\* lines 187-232: switch (field.type); the default label only warns
switchFieldType(type) ==
    IF type \in KnownTypes
    THEN [drawn |-> TRUE, warned |-> FALSE, throws |-> FALSE]
    ELSE [drawn |-> FALSE, warned |-> TRUE, throws |-> FALSE]

\* mutant: only the fields that were drawn are counted
countDrawnFields(count, out) == IF out.drawn THEN count + 1 ELSE count

\* line 132: fieldCount++ after every addFieldToDocument call that returned
countField(count, out) == count + 1

rvars == <<run, original, written, error, stylesheet, styleFile>>

\* parsers/stylesheet.ts, getDefaultStylesheet: the built-in stylesheet, every
\* property set
getDefaultStylesheet ==
    [size |-> Some("built-in"), margins |-> Some("built-in"),
     fonts |-> Some("built-in"), colors |-> Some("built-in")]

\* the properties a stylesheet file sets
StyleFileContent(file) ==
    IF file = "complete"
    THEN [size |-> Some("file"), margins |-> Some("file"),
          fonts |-> Some("file"), colors |-> Some("file")]
    ELSE [size |-> Some("file"), margins |-> None, fonts |-> None, colors |-> None]

\* mutant: a file that is missing or cannot be read rejects the promise
parseStylesheetRejects(file) ==
    IF file \in {"missing", "unreadable"} THEN None
    ELSE Some([k \in DOMAIN getDefaultStylesheet |->
                  IF StyleFileContent(file)[k] # None THEN StyleFileContent(file)[k]
                  ELSE getDefaultStylesheet[k]])

\* parsers/stylesheet.ts, parseStylesheet: a missing or unreadable source
\* falls back to the built-in default; the values of a file are laid over
\* the defaults, so that every property is set
parseStylesheet(file) ==
    IF file \in {"missing", "unreadable"} THEN Some(getDefaultStylesheet)
    ELSE Some([k \in DOMAIN getDefaultStylesheet |->
                  IF StyleFileContent(file)[k] # None THEN StyleFileContent(file)[k]
                  ELSE getDefaultStylesheet[k]])

\* lines 69-76: the stylesheet of the schema's path, or the default one; None
\* when the awaited parseStylesheet rejects
loadStylesheet(form, file) ==
    IF TruthyStr(form.stylesheet) THEN parseStylesheet(file)
    ELSE Some(getDefaultStylesheet)

\* mutant: a failed serialization still hands back a result
resultDespiteFailure(saveFails, count, pages) ==
    Some([fieldCount |-> count, pageCount |-> pages])

\* lines 136-143: the return statement is reached only when await doc.save()
\* has resolved; a rejection leaves the caller without a GeneratedPdf
returnValue(saveFails, count, pages) ==
    IF saveFails THEN None
    ELSE Some([fieldCount |-> count, pageCount |-> pages])

\* lines 58-94: configuration, stylesheet, document, initializeLayout
Begin ==
    /\ pc = "start"
    /\ \E createFails \in BOOLEAN :
         LET loaded == loadStylesheet(schema[1].form, styleFile)
             pageCount == OrElse(schema[1].form.pages, 1)
             totalPages == IF hasCoverPage THEN pageCount + 1 ELSE pageCount
         IN  IF loaded = None
             THEN /\ error' = "stylesheet"
                  /\ pc' = "aborted"
                  /\ UNCHANGED <<ctx, stylesheet>>
             ELSE IF createFails
             THEN /\ error' = "document"
                  /\ pc' = "aborted"
                  /\ stylesheet' = loaded
                  /\ UNCHANGED ctx
             ELSE /\ stylesheet' = loaded
                  /\ ctx' = Some(initializeLayout(totalPages))
                  /\ pc' = IF hasCoverPage THEN "cover" ELSE "header"
                  /\ UNCHANGED error
    /\ UNCHANGED <<schema, resolvedFooter, contentBaselineY, pageOffset,
                   fieldCount, placed, result>>
    /\ UNCHANGED <<drawLog, decorated, overflowed, warnings>>
    /\ UNCHANGED <<run, original, written, styleFile>>
    /\ UNCHANGED fvars
    /\ UNCHANGED wvars
    /\ UNCHANGED xvars

\* lines 97-101: drawCoverPage draws on ctx.pages[0] with a cursor of its own,
\* then nextPage(ctx)
DrawCover ==
    /\ pc = "cover"
    /\ drawLog' = await(drawLog, "cover", 0)
    /\ ctx' = Some(nextPage(ctx[1]))
    /\ pc' = "header"
    /\ UNCHANGED <<schema, resolvedFooter, contentBaselineY, pageOffset,
                   fieldCount, placed, result>>
    /\ UNCHANGED <<decorated, overflowed, warnings>>
    /\ UNCHANGED rvars
    /\ UNCHANGED fvars
    /\ UNCHANGED wvars
    /\ UNCHANGED xvars

\* lines 104-105: drawHeader from startPage on
DrawHeader ==
    /\ pc = "header"
    /\ drawLog' = await(drawLog, "header", 0)
    /\ decorated' = [decorated EXCEPT
                       !.header = Some(decoratedPages(ctx[1], startPage(hasCoverPage)))]
    /\ pc' = "footer"
    /\ UNCHANGED <<schema, ctx, resolvedFooter, contentBaselineY, pageOffset,
                   fieldCount, placed, result>>
    /\ UNCHANGED <<overflowed, warnings>>
    /\ UNCHANGED rvars
    /\ UNCHANGED fvars
    /\ UNCHANGED wvars
    /\ UNCHANGED xvars

\* lines 107-108: resolveFooterConfig, drawFooter from startPage on
DrawFooter ==
    /\ pc = "footer"
    /\ resolvedFooter' = Some(resolveFooterConfig(schema[1].footer, schema[1].form, today))
    /\ drawLog' = await(drawLog, "footer", 0)
    /\ decorated' = [decorated EXCEPT
                       !.footer = Some(decoratedPages(ctx[1], startPage(hasCoverPage)))]
    /\ pc' = "content"
    /\ UNCHANGED <<schema, ctx, contentBaselineY, pageOffset, fieldCount, placed, result>>
    /\ UNCHANGED <<overflowed, warnings>>
    /\ UNCHANGED rvars
    /\ UNCHANGED fvars
    /\ UNCHANGED wvars
    /\ UNCHANGED xvars

\* lines 110-126: drawSchemaContent or drawTitle, then the baseline is read
\* from the cursor and the page offset is fixed
DrawContent ==
    /\ pc = "content"
    /\ \E height \in ContentHeights :
       \E overflows \in {FALSE, schema[1].hasContent} :
         LET c == drawBlock(ctx[1], height, overflows)
         IN  /\ ctx' = Some(c)
             /\ contentBaselineY' = c.cursor.y
             /\ overflowed' = overflows
    /\ drawLog' = await(drawLog, IF schema[1].hasContent THEN "content" ELSE "title", 0)
    /\ pageOffset' = IF hasCoverPage THEN 1 ELSE 0
    /\ pc' = "fields"
    /\ UNCHANGED <<schema, resolvedFooter, fieldCount, placed, result>>
    /\ UNCHANGED <<decorated, warnings>>
    /\ UNCHANGED rvars
    /\ UNCHANGED fvars
    /\ UNCHANGED wvars
    /\ UNCHANGED xvars

\* lines 129-133 and 174-233: one iteration of the loop over schema.fields.
\* A known type is drawn on ctx.pages[pageIndex]; an unknown type only logs a
\* warning.  Drawing on a page that does not exist throws.
AddField ==
    /\ pc = "fields"
    /\ fieldCount < Len(schema[1].fields)
    /\ LET field == schema[1].fields[fieldCount + 1]
           adjustedField == adjustFieldPosition(field, contentBaselineY)
           pageIndex == pageIndexOf(ctx[1], adjustedField, pageOffset)
           out == switchFieldType(adjustedField.type)
       IN  IF out.throws \/ (out.drawn /\ pageIndex \notin 0..(Len(ctx[1].pages) - 1))
           THEN pc' = "failed" /\ UNCHANGED <<schema, fieldCount, placed, drawLog, warnings>>
           ELSE /\ schema' = [schema EXCEPT ![1].fields[fieldCount + 1] =
                                  argumentAfterAdjust(field, contentBaselineY)]
                /\ placed' = Append(placed, [field     |-> adjustedField,
                                             pageIndex |-> pageIndex,
                                             drawn     |-> out.drawn])
                /\ warnings' = IF out.warned THEN Append(warnings, fieldCount + 1)
                                             ELSE warnings
                /\ drawLog' = await(drawLog, "field", fieldCount + 1)
                /\ fieldCount' = countField(fieldCount, out)
                /\ pc' = pc
    /\ UNCHANGED <<ctx, resolvedFooter, contentBaselineY, pageOffset, result>>
    /\ UNCHANGED <<decorated, overflowed>>
    /\ UNCHANGED rvars
    /\ UNCHANGED fvars
    /\ UNCHANGED wvars
    /\ UNCHANGED xvars

\* lines 135-143: doc.save() and the return value
Save ==
    /\ pc = "fields"
    /\ fieldCount = Len(schema[1].fields)
    /\ \E saveFails \in BOOLEAN :
         /\ result' = returnValue(saveFails, fieldCount, Len(ctx[1].pages))
         /\ pc' = IF saveFails THEN "aborted" ELSE "done"
         /\ error' = IF saveFails THEN "save" ELSE error
    /\ UNCHANGED <<schema, ctx, resolvedFooter, contentBaselineY, pageOffset,
                   fieldCount, placed>>
    /\ UNCHANGED <<drawLog, decorated, overflowed, warnings>>
    /\ UNCHANGED <<run, original, written, stylesheet, styleFile>>
    /\ UNCHANGED fvars
    /\ UNCHANGED wvars
    /\ UNCHANGED xvars

\* lines 234-256: generateAndSavePdf awaits generatePdf and then savePdf, which
\* creates the directory and writes pdf.bytes
SavePdf ==
    /\ pc = "done"
    /\ \E writeFails \in BOOLEAN :
         /\ written' = ~writeFails
         /\ pc' = IF writeFails THEN "unsaved" ELSE "saved"
    /\ UNCHANGED <<schema, ctx, resolvedFooter, contentBaselineY, pageOffset,
                   fieldCount, placed, result>>
    /\ UNCHANGED <<drawLog, decorated, overflowed, warnings>>
    /\ UNCHANGED <<run, original, error, stylesheet, styleFile>>
    /\ UNCHANGED fvars
    /\ UNCHANGED wvars
    /\ UNCHANGED xvars

Next ==
    \/ Begin \/ DrawCover \/ DrawHeader \/ DrawFooter \/ DrawContent
    \/ AddField \/ Save \/ SavePdf

Spec == Init /\ [][Next]_vars

(***************************************************************************)
(* generatePdf called again on the same schema object                      *)
(***************************************************************************)
MaxRuns == 2

TwiceFields == [type : {"text"}, page : 1..2, position : [x : {72}, y : FieldYs]]

TwiceSchemas ==
    [form : [title : {Some(<< "Form" >>)}, version : {Some(<< "2.0" >>)},
             author : {None}, stylesheet : {None}, pages : {None}],
     coverPage : BOOLEAN,
     hasContent : BOOLEAN,
     footer : {None},
     fields : UNION {[1..n -> TwiceFields] : n \in 0..MaxFields}]

InitTwice ==
    /\ Init
    /\ schema \in {Some(sch) : sch \in TwiceSchemas}
    /\ today = 1

\* the caller calls generatePdf(options) once more with the same options
Restart ==
    /\ pc = "done"
    /\ run < MaxRuns
    /\ run' = run + 1
    /\ pc' = "start"
    /\ ctx' = None
    /\ resolvedFooter' = None
    /\ contentBaselineY' = 0
    /\ pageOffset' = 0
    /\ fieldCount' = 0
    /\ placed' = << >>
    /\ result' = None
    /\ drawLog' = << >>
    /\ decorated' = [header |-> None, footer |-> None]
    /\ overflowed' = FALSE
    /\ warnings' = << >>
    /\ stylesheet' = None
    /\ UNCHANGED <<schema, original, written, error, styleFile>>
    /\ UNCHANGED fvars
    /\ UNCHANGED wvars
    /\ UNCHANGED xvars

NextTwice ==
    \/ Begin \/ DrawCover \/ DrawHeader \/ DrawFooter \/ DrawContent
    \/ AddField \/ Save \/ Restart

SpecTwice == InitTwice /\ [][NextTwice]_vars

(***************************************************************************)
(* Footer specification: one resolveFooterConfig call, then the footer of  *)
(* single pages is rendered with resolvePageVariables.                     *)
(***************************************************************************)
InitFooter ==
    /\ \E in \in FooterInputs : footerArg = in[1] /\ formArg = in[2]
    /\ today = 1
    /\ resolved = None
    /\ calledOn = 0
    /\ rendered = None
    /\ again = None
    /\ againOn = 0
    /\ NoRun
    /\ NoWrap
    /\ NoHex
    /\ NoCover

\* the calendar day changes between or after calls
AdvanceDate ==
    /\ today < MaxDay
    /\ today' = today + 1
    /\ UNCHANGED <<footerArg, formArg, resolved, calledOn, rendered, again, againOn>>
    /\ UNCHANGED gvars
    /\ UNCHANGED wvars
    /\ UNCHANGED xvars

\* const resolvedFooter = resolveFooterConfig(schema.footer, schema.form)
ResolveFooter ==
    /\ resolved = None
    /\ resolved' = Some(resolveFooterConfig(footerArg, formArg, today))
    /\ calledOn' = today
    /\ UNCHANGED <<footerArg, formArg, today, rendered, again, againOn>>
    /\ UNCHANGED gvars
    /\ UNCHANGED wvars
    /\ UNCHANGED xvars

\* per-page rendering of an enabled footer: page pageNum of totalPages
RenderFooterPage ==
    /\ resolved # None
    /\ resolved[1].enabled
    /\ \E totalPages \in 1..MaxFooterPages : \E pageNum \in 1..totalPages :
         rendered' = Some([page   |-> pageNum,
                           pages  |-> totalPages,
                           left   |-> resolvePageVariables(resolved[1].left, pageNum, totalPages),
                           center |-> resolvePageVariables(resolved[1].center, pageNum, totalPages),
                           right  |-> resolvePageVariables(resolved[1].right, pageNum, totalPages)])
    /\ UNCHANGED <<footerArg, formArg, today, resolved, calledOn, again, againOn>>
    /\ UNCHANGED gvars
    /\ UNCHANGED wvars
    /\ UNCHANGED xvars

\* a later call of resolveFooterConfig with the same (footer, form)
ResolveFooterAgain ==
    /\ resolved # None
    /\ again = None
    /\ again' = Some(resolveFooterConfig(footerArg, formArg, today))
    /\ againOn' = today
    /\ UNCHANGED <<footerArg, formArg, today, resolved, calledOn, rendered>>
    /\ UNCHANGED gvars
    /\ UNCHANGED wvars
    /\ UNCHANGED xvars

NextFooter == AdvanceDate \/ ResolveFooter \/ RenderFooterPage \/ ResolveFooterAgain

SpecFooter == InitFooter /\ [][NextFooter]_vars

(***************************************************************************)
(* wrapText (pdf/utils.ts, kept under src/src/generators/pdf/coverpage.ts  *)
(* lines 392-447).  Here a string is a sequence of characters.  Widths     *)
(* are counted in half points, so that 0.5 * fontSize stays an integer:    *)
(* a width w exceeds maxWidth iff w > 2 * maxWidth.                        *)
(***************************************************************************)
\* line 419: text.length * fontSize * 0.5, in half points
estimateTextWidth(text, fontSize) == Len(text) * fontSize

\* index of the first " " of text, 0 if there is none
FirstSpace(text) ==
    IF \E i \in DOMAIN text : text[i] = " "
    THEN CHOOSE i \in DOMAIN text : text[i] = " " /\ \A j \in 1..(i - 1) : text[j] # " "
    ELSE 0

RECURSIVE split(_)
\* line 426: text.split(' '); two spaces in a row enclose an empty word and
\* ''.split(' ') is ['']
split(text) ==
    IF FirstSpace(text) = 0 THEN << text >>
    ELSE << SubSeq(text, 1, FirstSpace(text) - 1) >>
         \o split(SubSeq(text, FirstSpace(text) + 1, Len(text)))

\* mutant: the width of the line as it stands is tested, not the line with the word
wrapStepTestsCurrentLine(st, word, maxWidth, fontSize) ==
    LET testLine == IF st.currentLine # << >> THEN st.currentLine \o << " " >> \o word
                    ELSE word
        testWidth == estimateTextWidth(st.currentLine, fontSize)
    IN  IF testWidth > 2 * maxWidth /\ st.currentLine # << >>
        THEN [lines |-> Append(st.lines, st.currentLine), currentLine |-> word]
        ELSE [lines |-> st.lines, currentLine |-> testLine]

\* mutant: the width of the word alone is tested
wrapStepTestsWord(st, word, maxWidth, fontSize) ==
    LET testLine == IF st.currentLine # << >> THEN st.currentLine \o << " " >> \o word
                    ELSE word
        testWidth == estimateTextWidth(word, fontSize)
    IN  IF testWidth > 2 * maxWidth /\ st.currentLine # << >>
        THEN [lines |-> Append(st.lines, st.currentLine), currentLine |-> word]
        ELSE [lines |-> st.lines, currentLine |-> testLine]

\* mutant: a line that fits exactly is broken as well (>= for >)
wrapStepBreaksExactFit(st, word, maxWidth, fontSize) ==
    LET testLine == IF st.currentLine # << >> THEN st.currentLine \o << " " >> \o word
                    ELSE word
        testWidth == estimateTextWidth(testLine, fontSize)
    IN  IF testWidth >= 2 * maxWidth /\ st.currentLine # << >>
        THEN [lines |-> Append(st.lines, st.currentLine), currentLine |-> word]
        ELSE [lines |-> st.lines, currentLine |-> testLine]

\* lines 431-439: the body of the loop over the words
wrapStep(st, word, maxWidth, fontSize) ==
    LET testLine == IF st.currentLine # << >> THEN st.currentLine \o << " " >> \o word
                    ELSE word
        testWidth == estimateTextWidth(testLine, fontSize)
    IN  IF testWidth > 2 * maxWidth /\ st.currentLine # << >>
        THEN [lines |-> Append(st.lines, st.currentLine), currentLine |-> word]
        ELSE [lines |-> st.lines, currentLine |-> testLine]

RECURSIVE wrapLoop(_, _, _, _)
\* line 430: for (const word of words)
wrapLoop(st, words, maxWidth, fontSize) ==
    IF words = << >> THEN st
    ELSE wrapLoop(wrapStep(st, Head(words), maxWidth, fontSize), Tail(words),
                  maxWidth, fontSize)

\* mutant: the last line is pushed even when it is empty
wrapFinishAlways(st) == Append(st.lines, st.currentLine)

\* lines 442-446
wrapFinish(st) ==
    IF st.currentLine # << >> THEN Append(st.lines, st.currentLine) ELSE st.lines

\* lines 425-447
wrapText(text, maxWidth, fontSize) ==
    wrapFinish(wrapLoop([lines |-> << >>, currentLine |-> << >>], split(text),
                        maxWidth, fontSize))

(***************************************************************************)
(* wrapText specification: one call on a bounded input                     *)
(***************************************************************************)
MaxTextLen == 5

MaxWidth == 3

MaxFontSize == 2

Chars == {"a", "b", " "}

Texts == UNION {[1..n -> Chars] : n \in 0..MaxTextLen}

InitWrap ==
    /\ wrapArgs \in {Some([text |-> t, maxWidth |-> w, fontSize |-> f]) :
                        t \in Texts, w \in 0..MaxWidth, f \in 1..MaxFontSize}
    /\ wrapLines = None
    /\ NoHex
    /\ NoCover
    /\ NoRun
    /\ footerArg = None
    /\ formArg = None
    /\ today = 1
    /\ resolved = None
    /\ calledOn = 0
    /\ rendered = None
    /\ again = None
    /\ againOn = 0

\* const lines = wrapText(text, maxWidth, fontSize)
WrapCall ==
    /\ wrapArgs # None
    /\ wrapLines = None
    /\ wrapLines' = Some(wrapText(wrapArgs[1].text, wrapArgs[1].maxWidth,
                                  wrapArgs[1].fontSize))
    /\ UNCHANGED wrapArgs
    /\ UNCHANGED fvars
    /\ UNCHANGED gvars
    /\ UNCHANGED xvars

NextWrap == WrapCall

SpecWrap == InitWrap /\ [][NextWrap]_vars

(***************************************************************************)
(* hexToRgb (pdf/utils.ts, lines 398-411 of src/src/generators/pdf/        *)
(* coverpage.ts).  A string is a sequence of characters; a channel is the  *)
(* numerator n of the value n / 255 that rgb() receives, or NaN.           *)
(***************************************************************************)
\* the number NaN, which is none of the channel numerators 0..255
NaN == -1

\* the characters parseInt(_, 16) accepts, with their values
HexValue ==
    [ch \in {"0", "1", "2", "3", "4", "5", "6", "7", "8", "9",
             "a", "b", "c", "d", "e", "f", "A", "B", "C", "D", "E", "F"} |->
        CASE ch = "0" -> 0 [] ch = "1" -> 1 [] ch = "2" -> 2 [] ch = "3" -> 3
          [] ch = "4" -> 4 [] ch = "5" -> 5 [] ch = "6" -> 6 [] ch = "7" -> 7
          [] ch = "8" -> 8 [] ch = "9" -> 9
          [] ch \in {"a", "A"} -> 10 [] ch \in {"b", "B"} -> 11
          [] ch \in {"c", "C"} -> 12 [] ch \in {"d", "D"} -> 13
          [] ch \in {"e", "E"} -> 14 [] ch \in {"f", "F"} -> 15]

\* String.prototype.substring(start, end) for 0 <= start <= end
substring(str, start, end) == SubSeq(str, start + 1, Min(end, Len(str)))

RECURSIVE parseDigits(_, _)
parseDigits(str, acc) ==
    IF str = << >> \/ str[1] \notin DOMAIN HexValue THEN acc
    ELSE parseDigits(Tail(str), 16 * acc + HexValue[str[1]])

\* parseInt(str, 16): the value of the longest prefix of hex digits, NaN when
\* there is none
parseInt16(str) ==
    IF str = << >> \/ str[1] \notin DOMAIN HexValue THEN NaN
    ELSE parseDigits(str, 0)

\* mutant: the leading # is kept
keepHash(hex) == hex

\* line 403: hex.replace(/^#/, '')
removeHash(hex) == IF hex # << >> /\ hex[1] = "#" THEN Tail(hex) ELSE hex

\* lines 401-411
hexToRgb(hex) ==
    LET cleanHex == removeHash(hex)
    IN  [red   |-> parseInt16(substring(cleanHex, 0, 2)),
         green |-> parseInt16(substring(cleanHex, 2, 4)),
         blue  |-> parseInt16(substring(cleanHex, 4, 6))]

(***************************************************************************)
(* hexToRgb specification: one call on a six-digit hex string              *)
(***************************************************************************)
HexChars == {"0", "9", "a", "F"}

SixDigits == [1..6 -> HexChars]

HexInputs == SixDigits \cup {<< "#" >> \o d : d \in SixDigits}

InitHex ==
    /\ hexArg \in {Some(h) : h \in HexInputs}
    /\ hexOut = None
    /\ NoCover
    /\ NoWrap
    /\ NoRun
    /\ footerArg = None
    /\ formArg = None
    /\ today = 1
    /\ resolved = None
    /\ calledOn = 0
    /\ rendered = None
    /\ again = None
    /\ againOn = 0

\* const colour = hexToRgb(hex)
HexCall ==
    /\ hexArg # None
    /\ hexOut = None
    /\ hexOut' = Some(hexToRgb(hexArg[1]))
    /\ UNCHANGED hexArg
    /\ UNCHANGED cvars
    /\ UNCHANGED pvars
    /\ UNCHANGED fvars
    /\ UNCHANGED gvars
    /\ UNCHANGED wvars

NextHex == HexCall

SpecHex == InitHex /\ [][NextHex]_vars

(***************************************************************************)
(* Cover page of the three backends: drawCoverPage (pdf/coverpage.ts),     *)
(* createCoverPageSection (docx, src/unnamed/part_001), renderCoverPageHtml*)
(* (html/coverpage.ts).  A text is a sequence of tokens; y coordinates are *)
(* in tenths of a point.  The inputs have no subtitle, no revision history *)
(* and no watermark.                                                       *)
(***************************************************************************)
\* html/coverpage.ts lines 11-20
escapeHtml(text) ==
    [i \in DOMAIN text |->
        CASE text[i] = "&" -> "&amp;"
          [] text[i] = "<" -> "&lt;"
          [] text[i] = ">" -> "&gt;"
          [] text[i] = "\"" -> "&quot;"
          [] text[i] = "'" -> "&#039;"
          [] OTHER -> text[i]]

\* const metaFields: the same literal in the three backends
metaFields(formMeta, coverPage) ==
    << << "Organization", coverPage.organization >>,
       << "Department", coverPage.department >>,
       << "Document #", coverPage.documentNumber >>,
       << "Type", coverPage.documentType >>,
       << "Status", coverPage.status >>,
       << "Classification", coverPage.classification >>,
       << "Date", coverPage.date >>,
       << "Effective Date", coverPage.effectiveDate >>,
       << "Review Date", coverPage.reviewDate >>,
       << "Version", formMeta.version >>,
       << "Author", formMeta.author >>,
       << "Prepared By", coverPage.preparedBy >>,
       << "Reviewed By", coverPage.reviewedBy >>,
       << "Approved By", coverPage.approvedBy >> >>

\* if (!value) continue  /  .filter(entry => !!entry[1])
withValue(entries) == SelectSeq(entries, LAMBDA e : TruthyStr(e[2]))

\* [copyright, disclaimer, distributionStatement].filter(Boolean)
legalFields(coverPage) ==
    LET truthy == SelectSeq(<< coverPage.copyright, coverPage.disclaimer,
                               coverPage.distributionStatement >>,
                            LAMBDA t : TruthyStr(t))
    IN  [i \in DOMAIN truthy |-> truthy[i][1]]

\* Array.prototype.reverse
reverse(seq) == [i \in DOMAIN seq |-> seq[Len(seq) + 1 - i]]

\* mutant: the legal texts are drawn bottom-up in their listed order
legalAsListed(texts) == texts

\* pdf/coverpage.ts line 158: for (const text of legalFields.reverse())
legalDrawOrder(texts) == reverse(texts)

\* mutant: a file that cannot be read or embedded is not caught
drawCoverImageThrows(file) ==
    IF file = "missing"
    THEN [drawn |-> FALSE, warnings |-> << "Cover image not found" >>, threw |-> FALSE]
    ELSE IF file \in {"unreadable", "undecodable"}
    THEN [drawn |-> FALSE, warnings |-> << >>, threw |-> TRUE]
    ELSE [drawn |-> TRUE, warnings |-> << >>, threw |-> FALSE]

\* pdf/coverpage.ts lines 187-224
drawCoverImage(file) ==
    IF file = "missing"
    THEN [drawn |-> FALSE, warnings |-> << "Cover image not found" >>, threw |-> FALSE]
    ELSE IF file \in {"unreadable", "undecodable"}
    THEN [drawn |-> FALSE, warnings |-> << "Failed to embed cover image" >>, threw |-> FALSE]
    ELSE [drawn |-> TRUE, warnings |-> << >>, threw |-> FALSE]

\* pdf/coverpage.ts lines 229-270: the cursor moves down by the height of a
\* logo that was drawn (80 points) and stays otherwise
drawLogo(file, cursorY) ==
    IF file = "missing"
    THEN [cursorY |-> cursorY, drawn |-> FALSE, warnings |-> << "Logo image not found" >>]
    ELSE IF file \in {"unreadable", "undecodable"}
    THEN [cursorY |-> cursorY, drawn |-> FALSE, warnings |-> << "Failed to embed logo" >>]
    ELSE [cursorY |-> cursorY - 800, drawn |-> TRUE, warnings |-> << >>]

\* pdf/coverpage.ts lines 16-181.  ops are the draw calls made on the page,
\* each with the y it draws at; a label and its value share one y, 16 points
\* below the entry before; the legal texts go up from the bottom margin, 12
\* points apart.
drawCoverPage(formMeta, coverPage, files) ==
    LET none == [drawn |-> FALSE, warnings |-> << >>, threw |-> FALSE]
        top == PageTop * 10
        image == IF TruthyStr(coverPage.coverImage) THEN drawCoverImage(files.coverImage)
                 ELSE none
        logo == IF TruthyStr(coverPage.logo) THEN drawLogo(files.logo, top)
                ELSE [cursorY |-> top, drawn |-> FALSE, warnings |-> << >>]
        titleY == IF TruthyStr(coverPage.logo) THEN logo.cursorY - 200 ELSE top
        ruleY == titleY - 364 - 50 - 50
        metaY == ruleY - 200
        shown == withValue(metaFields(formMeta, coverPage))
        metaOps == [i \in 1..(2 * Len(shown)) |->
                      LET k == (i + 1) \div 2
                      IN  IF i % 2 = 1
                          THEN [kind |-> "label", text |-> << shown[k][1], ":" >>,
                                y |-> metaY - 160 * (k - 1)]
                          ELSE [kind |-> "value", text |-> shown[k][2][1],
                                y |-> metaY - 160 * (k - 1)]]
        legal == legalDrawOrder(legalFields(coverPage))
        legalOps == [k \in DOMAIN legal |->
                       [kind |-> "legal", text |-> legal[k], y |-> 1100 + 120 * (k - 1)]]
    IN  IF image.threw
        THEN [ops |-> << >>, warnings |-> image.warnings, completed |-> FALSE,
              logoCursor |-> top]
        ELSE [ops |-> (IF image.drawn
                       THEN << [kind |-> "image", text |-> << >>, y |-> 0] >> ELSE << >>)
                      \o (IF logo.drawn
                          THEN << [kind |-> "logo", text |-> << >>, y |-> logo.cursorY] >>
                          ELSE << >>)
                      \o << [kind |-> "title", text |-> formMeta.title[1], y |-> titleY],
                            [kind |-> "rule", text |-> << >>, y |-> ruleY] >>
                      \o metaOps \o legalOps,
              warnings |-> image.warnings \o logo.warnings,
              completed |-> TRUE,
              logoCursor |-> logo.cursorY]

\* part_001 lines 304-340: the bytes read go into the ImageRun as they are
createImageParagraph(file) ==
    IF file = "missing"
    THEN [paragraph |-> None, warnings |-> << "Image not found" >>]
    ELSE IF file = "unreadable"
    THEN [paragraph |-> None, warnings |-> << "Failed to embed image" >>]
    ELSE [paragraph |-> Some([kind |-> "image", runs |-> << >>]), warnings |-> << >>]

\* part_001 lines 30-299: the children of the cover section, in order
createCoverPageSection(formMeta, coverPage, files) ==
    LET none == [paragraph |-> None, warnings |-> << >>]
        image == IF TruthyStr(coverPage.coverImage) THEN createImageParagraph(files.coverImage)
                 ELSE none
        logo == IF TruthyStr(coverPage.logo) THEN createImageParagraph(files.logo)
                ELSE none
        shown == withValue(metaFields(formMeta, coverPage))
        legal == legalFields(coverPage)
    IN  [children |->
            image.paragraph
            \o (IF logo.paragraph = None THEN << >>
                ELSE << [logo.paragraph[1] EXCEPT !.kind = "logo"] >>)
            \o << [kind |-> "spacer", runs |-> << >>],
                  [kind |-> "title", runs |-> << formMeta.title[1] >>],
                  [kind |-> "rule", runs |-> << >>] >>
            \o [k \in DOMAIN shown |->
                  [kind |-> "meta", runs |-> << << shown[k][1], ": " >>, shown[k][2][1] >>]]
            \o << [kind |-> "spacer", runs |-> << >>] >>
            \o [k \in DOMAIN legal |-> [kind |-> "legal", runs |-> << legal[k] >>]],
         warnings |-> image.warnings \o logo.warnings,
         properties |-> coverSectionProperties]

\* html/coverpage.ts lines 26-140: the rows of the metadata table and the
\* paragraphs of the legal block, as they follow each other in the string
renderCoverPageHtml(formMeta, coverPage) ==
    LET shown == withValue(metaFields(formMeta, coverPage))
        legal == legalFields(coverPage)
    IN  [title |-> escapeHtml(formMeta.title[1]),
         rows |-> [k \in DOMAIN shown |->
                     [label |-> escapeHtml(<< shown[k][1] >>),
                      value |-> escapeHtml(shown[k][2][1])]],
         legal |-> [k \in DOMAIN legal |-> escapeHtml(legal[k])]]

\* index.ts line 281: the platforms that have an icon
ICON_NAMES == {"youtube", "x", "facebook", "linkedin", "github", "website"}

\* index.ts lines 287-314: null when the platform has no icon, when neither
\* path exists and when readFile rejects
loadSocialIconBytes(platform, file) ==
    IF platform \notin ICON_NAMES \/ file = "missing" THEN None
    ELSE IF file = "unreadable" THEN None
    ELSE Some(file)

\* layout.ts, the social links of the footer: an icon whose bytes are null or
\* cannot be embedded is left out with a warning, the link text stays
drawSocialIcon(platform, file) ==
    LET bytes == loadSocialIconBytes(platform, file)
    IN  IF bytes = None \/ bytes = Some("undecodable")
        THEN [bytes |-> bytes, drawn |-> FALSE, completed |-> TRUE,
              warnings |-> << "Icon not available" >>]
        ELSE [bytes |-> bytes, drawn |-> TRUE, completed |-> TRUE, warnings |-> << >>]

(***************************************************************************)
(* Cover page specification: one cover page rendered by the three backends,*)
(* or one social icon loaded for the footer                                *)
(***************************************************************************)
ImageFiles == {"ok", "missing", "unreadable", "undecodable"}

CoverForms ==
    [title : {Some(<< "Form" >>)},
     version : {None, Some(<< "2.0" >>)},
     author : {None, Some(<< >>), Some(<< "Ann", "&", "Bo" >>)}]

CoverPages ==
    [organization : {None, Some(<< >>), Some(<< "ACME" >>)},
     department : {None}, documentNumber : {None}, documentType : {None},
     status : {None}, classification : {None}, date : {None},
     effectiveDate : {None}, reviewDate : {None}, preparedBy : {None},
     reviewedBy : {None},
     approvedBy : {None, Some(<< "Eve" >>)},
     copyright : {None, Some(<< >>), Some(<< "(c)", "R", "&", "D" >>)},
     disclaimer : {None, Some(<< "As", "is" >>)},
     distributionStatement : {None, Some(<< "Internal" >>)},
     coverImage : {None, Some(<< "cover.png" >>)},
     logo : {None, Some(<< "logo.png" >>)}]

\* the state of the files the cover page names
CoverFiles(coverPage) ==
    [coverImage : IF coverPage.coverImage = None THEN {"missing"} ELSE ImageFiles,
     logo : IF coverPage.logo = None THEN {"missing"} ELSE ImageFiles]

CoverInputs ==
    {[formMeta |-> m, coverPage |-> c, files |-> f] :
        m \in CoverForms, c \in CoverPages,
        f \in [coverImage : ImageFiles, logo : ImageFiles]}

InitCover ==
    /\ \/ /\ coverArgs \in {Some(a) : a \in {b \in CoverInputs :
                                               b.files \in CoverFiles(b.coverPage)}}
          /\ iconArg = None
       \/ /\ coverArgs = None
          /\ iconArg \in {Some([platform |-> pf, file |-> f]) :
                             pf \in {"github", "mastodon"}, f \in ImageFiles}
    /\ coverOut = None
    /\ iconOut = None
    /\ NoPair
    /\ NoHex
    /\ NoWrap
    /\ NoRun
    /\ footerArg = None
    /\ formArg = None
    /\ today = 1
    /\ resolved = None
    /\ calledOn = 0
    /\ rendered = None
    /\ again = None
    /\ againOn = 0

\* the cover page of one schema in the three output formats
RenderCover ==
    /\ coverArgs # None
    /\ coverOut = None
    /\ LET a == coverArgs[1]
       IN  coverOut' = Some([pdf  |-> drawCoverPage(a.formMeta, a.coverPage, a.files),
                             docx |-> createCoverPageSection(a.formMeta, a.coverPage, a.files),
                             html |-> renderCoverPageHtml(a.formMeta, a.coverPage)])
    /\ UNCHANGED <<coverArgs, iconArg, iconOut, hexArg, hexOut>>
    /\ UNCHANGED pvars
    /\ UNCHANGED fvars
    /\ UNCHANGED gvars
    /\ UNCHANGED wvars

\* one social link of the footer
LoadIcon ==
    /\ iconArg # None
    /\ iconOut = None
    /\ iconOut' = Some(drawSocialIcon(iconArg[1].platform, iconArg[1].file))
    /\ UNCHANGED <<coverArgs, coverOut, iconArg, hexArg, hexOut>>
    /\ UNCHANGED pvars
    /\ UNCHANGED fvars
    /\ UNCHANGED gvars
    /\ UNCHANGED wvars

NextCover == RenderCover \/ LoadIcon

SpecCover == InitCover /\ [][NextCover]_vars

(***************************************************************************)
(* Two generatePdf calls on one schema object, interleaved at their awaits *)
(***************************************************************************)
\* mutant: the LayoutContext is kept in one module-level variable
ctxOfModule(r) == 1

\* line 94: const ctx = initializeLayout(...): the context created in call r
\* is a new object that only call r holds
ctxOf(r) == r

\* the local variables of a call before its first step
runStart ==
    [pc |-> "start", steps |-> 0, ctxRef |-> 0, contentBaselineY |-> 0,
     pageOffset |-> 0, fieldCount |-> 0, placed |-> << >>, result |-> None]

\* lines 58-144: one step of call r up to its next await.  st holds the
\* call's local variables, h the LayoutContext objects by reference, sch the
\* schema object, content the height of the schema's content and whether it
\* runs over the page.
stepRun(r, st, h, sch, content) ==
    LET c == h[st.ctxRef][1]
        next == [st EXCEPT !.steps = st.steps + 1]
    IN  CASE st.pc = "start" ->
               LET pageCount == OrElse(sch.form.pages, 1)
                   totalPages == IF sch.coverPage THEN pageCount + 1 ELSE pageCount
               IN  [run |-> [next EXCEPT !.ctxRef = ctxOf(r),
                                         !.pc = IF sch.coverPage THEN "cover" ELSE "header"],
                    heap |-> [h EXCEPT ![ctxOf(r)] = Some(initializeLayout(totalPages))],
                    schema |-> sch]
          [] st.pc = "cover" ->
               [run |-> [next EXCEPT !.pc = "header"],
                heap |-> [h EXCEPT ![st.ctxRef] = Some(nextPage(c))],
                schema |-> sch]
          [] st.pc = "header" ->
               [run |-> [next EXCEPT !.pc = "footer"], heap |-> h, schema |-> sch]
          [] st.pc = "footer" ->
               [run |-> [next EXCEPT !.pc = "content"], heap |-> h, schema |-> sch]
          [] st.pc = "content" ->
               LET drawn == drawBlock(c, content.height, content.overflows)
               IN  [run |-> [next EXCEPT !.pc = "fields",
                                         !.contentBaselineY = drawn.cursor.y,
                                         !.pageOffset = IF sch.coverPage THEN 1 ELSE 0],
                    heap |-> [h EXCEPT ![st.ctxRef] = Some(drawn)],
                    schema |-> sch]
          [] st.pc = "fields" /\ st.fieldCount < Len(sch.fields) ->
               LET field == sch.fields[st.fieldCount + 1]
                   adjustedField == adjustFieldPosition(field, st.contentBaselineY)
                   pageIndex == pageIndexOf(c, adjustedField, st.pageOffset)
                   out == switchFieldType(adjustedField.type)
               IN  IF out.throws \/ (out.drawn /\ pageIndex \notin 0..(Len(c.pages) - 1))
                   THEN [run |-> [next EXCEPT !.pc = "failed"], heap |-> h, schema |-> sch]
                   ELSE [run |-> [next EXCEPT
                                    !.placed = Append(st.placed,
                                        [field |-> adjustedField,
                                         pageIndex |-> pageIndex,
                                         drawn |-> out.drawn]),
                                    !.fieldCount = countField(st.fieldCount, out)],
                         heap |-> h,
                         schema |-> [sch EXCEPT !.fields[st.fieldCount + 1] =
                                        argumentAfterAdjust(field, st.contentBaselineY)]]
          [] st.pc = "fields" /\ st.fieldCount >= Len(sch.fields) ->
               [run |-> [next EXCEPT !.pc = "done",
                                     !.result = returnValue(FALSE, st.fieldCount, Len(c.pages))],
                heap |-> h, schema |-> sch]
          [] OTHER -> [run |-> st, heap |-> h, schema |-> sch]

PairSchemas ==
    [form : [title : {Some(<< "Form" >>)}, version : {Some(<< "2.0" >>)},
             author : {None}, stylesheet : {None}, pages : {None, Some(2)}],
     coverPage : BOOLEAN,
     hasContent : BOOLEAN,
     footer : {None},
     fields : UNION {[1..n -> TwiceFields] : n \in 0..1}]

InitPair ==
    /\ \E sch \in PairSchemas, height \in ContentHeights :
       \E overflows \in {FALSE, sch.hasContent} :
          shared = Some([schema |-> sch, original |-> sch,
                         content |-> [height |-> height, overflows |-> overflows]])
    /\ pair = Some([r \in 1..2 |-> runStart])
    /\ heap = Some([i \in 0..2 |-> None])
    /\ coverArgs = None /\ coverOut = None /\ iconArg = None /\ iconOut = None
    /\ NoHex
    /\ NoWrap
    /\ NoRun
    /\ footerArg = None
    /\ formArg = None
    /\ today = 1
    /\ resolved = None
    /\ calledOn = 0
    /\ rendered = None
    /\ again = None
    /\ againOn = 0

\* call r runs from one await to the next
PairStep(r) ==
    /\ pair # None
    /\ pair[1][r].pc \notin {"done", "failed"}
    /\ LET n == stepRun(r, pair[1][r], heap[1], shared[1].schema, shared[1].content)
       IN  /\ pair' = Some([pair[1] EXCEPT ![r] = n.run])
           /\ heap' = Some(n.heap)
           /\ shared' = Some([shared[1] EXCEPT !.schema = n.schema])
    /\ UNCHANGED cvars
    /\ UNCHANGED <<hexArg, hexOut>>
    /\ UNCHANGED fvars
    /\ UNCHANGED gvars
    /\ UNCHANGED wvars

NextPair == PairStep(1) \/ PairStep(2)

SpecPair == InitPair /\ [][NextPair]_vars

(***************************************************************************)
(* Properties of footer resolution (checked under SpecFooter)              *)
(***************************************************************************)
\* the call has returned
Called == resolved # None

\* a footer config was given and does not switch the footer off
Active == footerArg # None /\ footerArg[1].enabled # Some(FALSE)

IsPrefix(a, b) == Len(a) <= Len(b) /\ SubSeq(b, 1, Len(a)) = a

Contains(s, t) == \E i \in DOMAIN s : s[i] = t

\* the static variables of a text, resolved on the day of the call
Static(text) == resolveStaticVariables(text, formArg, calledOn)

\* what the configuration asks for in each slot, before showVersion and showDate
WantedLeft(f) ==
    IF TruthyStr(f.left) THEN f.left[1]
    ELSE IF TruthyStr(f.copyright) THEN f.copyright[1] ELSE << >>

WantedCenter(f) ==
    IF TruthyStr(f.center) THEN f.center[1]
    ELSE IF TruthyStr(f.text) THEN f.text[1] ELSE << >>

WantedRight(f) ==
    IF TruthyStr(f.right) THEN f.right[1]
    ELSE IF TruthyBool(f.showPageNumbers)
         THEN << "Page ", "{{page}}", " of ", "{{pages}}" >> ELSE << >>

\* center with "Version {version}" joined by " - "
WithVersion(center, version) ==
    IF center = << >> THEN << "Version " >> \o version
    ELSE center \o << " - ", "Version " >> \o version

\* C3: with no footer config the result is enabled iff the form has a
\* version string, center is "Version {version}" (empty without a version)
\* and left and right are empty.
C3_LegacyFooter ==
    (Called /\ footerArg = None) =>
        LET r == resolved[1]
            hasVersion == formArg.version # None /\ formArg.version[1] # << >>
        IN  /\ r.enabled = hasVersion
            /\ r.center = IF hasVersion THEN << "Version " >> \o formArg.version[1]
                          ELSE << >>
            /\ r.left = << >>
            /\ r.right = << >>

C3_Witness ==
    /\ Called /\ footerArg = None
    /\ formArg.version = Some(<< "2.0" >>)
    /\ resolved[1].enabled
    /\ resolved[1].center = << "Version ", "2.0" >>

\* C4: with enabled === false the result is disabled, left, center and right
\* are empty and there is no social link, whatever else is configured.
C4_DisabledFooter ==
    (Called /\ footerArg # None /\ footerArg[1].enabled = Some(FALSE)) =>
        LET r == resolved[1]
        IN  /\ r.enabled = FALSE
            /\ r.left = << >> /\ r.center = << >> /\ r.right = << >>
            /\ \A p \in Platforms : r.socialLinks[p] = None

C4_Witness ==
    /\ Called /\ footerArg # None /\ footerArg[1].enabled = Some(FALSE)
    /\ TruthyStr(footerArg[1].text) /\ TruthyStr(footerArg[1].copyright)
    /\ TruthyStr(footerArg[1].center) /\ TruthyBool(footerArg[1].showDate)
    /\ footerArg[1].socialLinks # None
    /\ \A p \in Platforms : TruthyStr(footerArg[1].socialLinks[1][p])
    /\ resolved[1].enabled = FALSE

\* C5: enabled is false iff left, center and right are all empty and there is
\* no social link, or the caller set enabled to false; equivalently enabled is
\* true iff a slot is non-empty or a social link survived filtering.
C5_EnabledIffContent ==
    Called =>
        LET r == resolved[1]
            empty == /\ r.left = << >> /\ r.center = << >> /\ r.right = << >>
                     /\ \A p \in Platforms : r.socialLinks[p] = None
            switchedOff == footerArg # None /\ footerArg[1].enabled = Some(FALSE)
        IN  /\ (r.enabled = FALSE) <=> (empty \/ switchedOff)
            /\ (r.enabled = TRUE) <=> ~empty

C5_Witness ==
    /\ Called /\ Active
    /\ resolved[1].left = << >> /\ resolved[1].center = << >> /\ resolved[1].right = << >>
    /\ \E p \in Platforms : resolved[1].socialLinks[p] # None
    /\ resolved[1].enabled

\* C6: explicit left/center/right are seeded first; text, copyright and
\* showPageNumbers only fill a slot that is still empty, showPageNumbers with
\* the literal template "Page {{page}} of {{pages}}".
C6_ShorthandsFillEmptySlots ==
    (Called /\ Active) =>
        LET f == footerArg[1]
            r == resolved[1]
        IN  /\ TruthyStr(f.center) => IsPrefix(Static(f.center[1]), r.center)
            /\ (~TruthyStr(f.center) /\ TruthyStr(f.text)) =>
                   IsPrefix(Static(f.text[1]), r.center)
            /\ TruthyStr(f.left) => r.left = Static(f.left[1])
            /\ (~TruthyStr(f.left) /\ TruthyStr(f.copyright)) =>
                   r.left = Static(f.copyright[1])
            /\ TruthyStr(f.right) => r.right = Static(f.right[1])
            /\ (~TruthyStr(f.right) /\ TruthyBool(f.showPageNumbers)) =>
                   r.right = << "Page ", "{{page}}", " of ", "{{pages}}" >>

C6_Witness ==
    /\ Called /\ Active
    /\ footerArg[1].center = Some(<< "C" >>) /\ footerArg[1].text = Some(<< "text" >>)
    /\ footerArg[1].left = Some(<< "L" >>) /\ TruthyStr(footerArg[1].copyright)
    /\ footerArg[1].right = Some(<< "R" >>) /\ TruthyBool(footerArg[1].showPageNumbers)
    /\ resolved[1].left = << "L" >> /\ resolved[1].right = << "R" >>
    /\ IsPrefix(<< "C" >>, resolved[1].center)

\* C7 as stated: whenever showVersion is set, "Version {version}" is appended
\* to center, joined with " - " (center is just the version text when it was
\* empty), and the text already in center is kept.
C7_VersionAlwaysAppended ==
    (Called /\ Active /\ TruthyBool(footerArg[1].showVersion)) =>
        IsPrefix(Static(WithVersion(WantedCenter(footerArg[1]),
                                    OrElse(formArg.version, << >>))),
                 resolved[1].center)

\* C7 amended: when showVersion is set and the form has a non-empty version,
\* "Version {version}" is appended to center, joined with " - " (center is
\* just the version text when it was empty) and the text already in center is
\* kept; when the form has no version, showVersion adds nothing to center.
C7_VersionAppended ==
    (Called /\ Active /\ TruthyBool(footerArg[1].showVersion)) =>
        LET f == footerArg[1]
            r == resolved[1]
        IN  IF TruthyStr(formArg.version)
            THEN IsPrefix(Static(WithVersion(WantedCenter(f), formArg.version[1])), r.center)
            ELSE /\ IsPrefix(Static(WantedCenter(f)), r.center)
                 /\ ~Contains(r.center, "Version ")

C7_Witness ==
    /\ Called /\ Active /\ TruthyBool(footerArg[1].showVersion)
    /\ footerArg[1].center = Some(<< "C" >>)
    /\ formArg.version = Some(<< "2.0" >>)
    /\ IsPrefix(<< "C", " - ", "Version ", "2.0" >>, resolved[1].center)

\* C8: with showDate the date goes into the first free slot of left, right
\* (a slot is taken by its explicit text, left also by copyright, right also
\* by showPageNumbers); when neither is free it is appended to center with
\* " | ".  The date is inserted in exactly one slot, no slot text is lost.
C8_DateInFirstFreeSlot ==
    (Called /\ Active /\ TruthyBool(footerArg[1].showDate)) =>
        LET f == footerArg[1]
            r == resolved[1]
            left == WantedLeft(f)
            right == WantedRight(f)
            center == IF TruthyBool(f.showVersion) /\ TruthyStr(formArg.version)
                      THEN WithVersion(WantedCenter(f), formArg.version[1])
                      ELSE WantedCenter(f)
            date == << DayNames[calledOn] >>
        IN  IF left = << >>
            THEN r.left = date /\ r.center = Static(center) /\ r.right = Static(right)
            ELSE IF right = << >>
            THEN r.left = Static(left) /\ r.center = Static(center) /\ r.right = date
            ELSE /\ r.left = Static(left)
                 /\ r.right = Static(right)
                 /\ r.center = Static(center)
                               \o (IF center = << >> THEN << >> ELSE << " | " >>)
                               \o date

C8_Witness ==
    /\ Called /\ Active /\ TruthyBool(footerArg[1].showDate)
    /\ TruthyStr(footerArg[1].copyright) /\ TruthyBool(footerArg[1].showPageNumbers)
    /\ footerArg[1].center = Some(<< "C" >>)
    /\ calledOn = 2
    /\ resolved[1].center = << "C", " | ", "11/7/2026" >>

\* C9: in the returned slots every static variable of the configured text is
\* replaced by the form metadata and the current date while {{page}} and
\* {{pages}} are still there; resolvePageVariables later replaces every
\* occurrence of them by the page number and the page count.
C9_VariablesSubstituted ==
    /\ (Called /\ Active) =>
        LET configured == SlotsBeforeResolve(footerArg[1], formArg)
            value(t) == IF t = "{{title}}" THEN OrElse(formArg.title, << >>)
                        ELSE IF t = "{{version}}" THEN OrElse(formArg.version, << >>)
                        ELSE IF t = "{{author}}" THEN OrElse(formArg.author, << >>)
                        ELSE IF t = "{{date}}" THEN << DayNames[calledOn] >>
                        ELSE << t >>
            substituted(text) == Flatten([i \in DOMAIN text |-> value(text[i])])
        IN  /\ resolved[1].left = substituted(configured.left)
            /\ resolved[1].center = substituted(configured.center)
            /\ resolved[1].right = substituted(configured.right)
    /\ (Called /\ rendered # None) =>
        LET value(t) == IF t = "{{page}}" THEN << DigitNames[rendered[1].page] >>
                        ELSE IF t = "{{pages}}" THEN << DigitNames[rendered[1].pages] >>
                        ELSE << t >>
            substituted(text) == Flatten([i \in DOMAIN text |-> value(text[i])])
        IN  /\ rendered[1].left = substituted(resolved[1].left)
            /\ rendered[1].center = substituted(resolved[1].center)
            /\ rendered[1].right = substituted(resolved[1].right)

\* C10: the social links of the result are exactly the platforms whose URL in
\* the footer config is present and non-empty, each with its URL unchanged.
C10_SocialLinksFiltered ==
    (Called /\ Active) =>
        LET f == footerArg[1]
            configured(p) == /\ f.socialLinks # None
                             /\ f.socialLinks[1][p] # None
                             /\ f.socialLinks[1][p][1] # << >>
        IN  \A p \in Platforms :
                resolved[1].socialLinks[p] =
                    IF configured(p) THEN f.socialLinks[1][p] ELSE None

C10_Witness ==
    /\ Called /\ Active /\ footerArg[1].socialLinks # None
    /\ footerArg[1].socialLinks[1]["x"] = Some(<< >>)
    /\ footerArg[1].socialLinks[1]["youtube"] = None
    /\ footerArg[1].socialLinks[1]["website"] = Some(<< "https://", "website" >>)
    /\ resolved[1].socialLinks["x"] = None
    /\ resolved[1].socialLinks["youtube"] = None
    /\ resolved[1].socialLinks["website"] = Some(<< "https://", "website" >>)

\* the footer config puts the date into a slot: showDate, or {{date}} in a text
UsesDate ==
    /\ Active
    /\ \/ TruthyBool(footerArg[1].showDate)
       \/ \E k \in {"left", "center", "right", "text", "copyright"} :
            /\ footerArg[1][k] # None
            /\ Contains(footerArg[1][k][1], "{{date}}")

C1_PageIndexClamped ==
    /\ pc # "failed"
    /\ \A k \in DOMAIN placed :
        LET wanted == schema[1].fields[k].page - 1
                      + (IF schema[1].coverPage THEN 1 ELSE 0)
            last == Len(ctx[1].pages) - 1
        IN  placed[k].pageIndex = IF wanted <= last THEN wanted ELSE last

C1_Witness ==
    /\ pc = "done"
    /\ schema[1].coverPage = FALSE
    /\ schema[1].form.pages = Some(2)
    /\ Len(ctx[1].pages) = 2
    /\ Len(placed) = 2
    /\ schema[1].fields[1].page = 3 /\ placed[1].pageIndex = 1
    /\ schema[1].fields[2].page = 1 /\ placed[2].pageIndex = 0

\* C2: a field of logical page 1 is placed at y = baseline + position.y, the
\* baseline being the cursor y as it stands once content or title is drawn,
\* before any field is placed; a field of another page keeps its position.y.
C2_BaselineRelativeY ==
    /\ pc \in {"fields", "done"} => contentBaselineY = ctx[1].cursor.y
    /\ \A k \in DOMAIN placed :
        LET field == schema[1].fields[k]
        IN  /\ placed[k].field.position.y =
                   IF field.page = 1 THEN contentBaselineY + field.position.y
                   ELSE field.position.y
            /\ placed[k].field.position.x = field.position.x

C2_Witness ==
    /\ pc = "done"
    /\ contentBaselineY = 700
    /\ Len(placed) = 2
    /\ schema[1].fields[1].page = 1 /\ schema[1].fields[1].position.y = -50
    /\ placed[1].field.position.y = 650
    /\ schema[1].fields[2].page = 2 /\ schema[1].fields[2].position.y = -50
    /\ placed[2].field.position.y = -50

(***************************************************************************)
(* Properties of wrapText (checked under SpecWrap)                         *)
(***************************************************************************)
Wrapped == wrapLines # None

RECURSIVE JoinWithSpaces(_)
\* the strings of a sequence joined with single spaces
JoinWithSpaces(ss) ==
    IF ss = << >> THEN << >>
    ELSE IF Len(ss) = 1 THEN ss[1]
    ELSE ss[1] \o << " " >> \o JoinWithSpaces(Tail(ss))

\* the words of a text: its maximal runs of non-space characters
Words(text) == SelectSeq(split(text), LAMBDA w : w # << >>)

\* the text with its whitespace normalized
Normalized(text) == JoinWithSpaces(Words(text))

\* a width in half points exceeds maxWidth
TooWide(len, args) == len * args.fontSize > 2 * args.maxWidth

\* C12: the lines joined with single spaces are the whitespace-normalized
\* text (no word lost, duplicated or reordered), and no line has leading,
\* trailing or doubled spaces.
C12_JoinIsNormalizedText ==
    Wrapped =>
        /\ JoinWithSpaces(wrapLines[1]) = Normalized(wrapArgs[1].text)
        /\ \A i \in DOMAIN wrapLines[1] : wrapLines[1][i] = Normalized(wrapLines[1][i])

\* C13: every line has estimated width at most maxWidth, unless the line is
\* a single unsplittable word.
C13_LinesFitOrSingleWord ==
    Wrapped =>
        \A i \in DOMAIN wrapLines[1] :
            \/ ~TooWide(Len(wrapLines[1][i]), wrapArgs[1])
            \/ \A j \in DOMAIN wrapLines[1][i] : wrapLines[1][i][j] # " "

C13_Witness ==
    /\ Wrapped
    /\ wrapArgs[1].text = << "a", " ", "b", " ", "a" >>
    /\ wrapArgs[1].maxWidth = 3 /\ wrapArgs[1].fontSize = 2
    /\ wrapLines[1] = << << "a", " ", "b" >>, << "a" >> >>

\* C14: the empty string gives zero lines, for every maxWidth and fontSize.
C14_EmptyTextNoLines ==
    (Wrapped /\ wrapArgs[1].text = << >>) => wrapLines[1] = << >>

C14_Witness ==
    /\ Wrapped
    /\ wrapArgs[1].text = << >>
    /\ wrapArgs[1].maxWidth = 0
    /\ wrapLines[1] = << >>

\* C15: a word wider than maxWidth is the only content of its line; no word
\* is split, and the words of the lines are the words of the text in order.
C15_WideWordAlone ==
    Wrapped =>
        /\ \A i \in DOMAIN wrapLines[1] :
            \A k \in DOMAIN split(wrapLines[1][i]) :
                LET w == split(wrapLines[1][i])[k]
                IN  (w # << >> /\ TooWide(Len(w), wrapArgs[1])) => wrapLines[1][i] = w
        /\ Flatten([i \in DOMAIN wrapLines[1] |-> Words(wrapLines[1][i])])
               = Words(wrapArgs[1].text)

C15_Witness ==
    /\ Wrapped
    /\ wrapArgs[1].text = << "a", " ", "b", "b" >>
    /\ wrapArgs[1].maxWidth = 1 /\ wrapArgs[1].fontSize = 2
    /\ wrapLines[1] = << << "a" >>, << "b", "b" >> >>

\* a new line is started only when the line with the next word would be too wide
GreedyBreaks ==
    \A i \in 1..(Len(wrapLines[1]) - 1) :
        TooWide(Len(wrapLines[1][i]) + 1 + Len(split(wrapLines[1][i + 1])[1]), wrapArgs[1])

\* C16 as stated: packing is greedy, and a non-empty text whose whole width
\* is at most maxWidth comes back as exactly one line equal to the text.
C16_FittingTextIsOneLine ==
    Wrapped =>
        /\ GreedyBreaks
        /\ (wrapArgs[1].text # << >> /\ ~TooWide(Len(wrapArgs[1].text), wrapArgs[1])) =>
               wrapLines[1] = << wrapArgs[1].text >>

\* C16 amended: packing is greedy, and a non-empty text that does not begin
\* with a space and whose whole width is at most maxWidth comes back as
\* exactly one line equal to the text.
C16_GreedyPacking ==
    Wrapped =>
        /\ GreedyBreaks
        /\ (/\ wrapArgs[1].text # << >>
            /\ wrapArgs[1].text[1] # " "
            /\ ~TooWide(Len(wrapArgs[1].text), wrapArgs[1])) =>
               wrapLines[1] = << wrapArgs[1].text >>

C16_Witness ==
    /\ Wrapped
    /\ wrapArgs[1].text = << "a", "b", " ", "a" >>
    /\ wrapArgs[1].maxWidth = 2 /\ wrapArgs[1].fontSize = 1
    /\ wrapLines[1] = << << "a", "b", " ", "a" >> >>

(***************************************************************************)
(* Properties of the pages, the order and the failures of a generation run *)
(***************************************************************************)
Declared == OrElse(schema[1].form.pages, 1)

\* C17: for a run whose content does not overflow, the pageCount returned is
\* the declared page count (default 1) plus 1 if there is a cover page
C17_PageCountDeclaredPlusCover ==
    (pc = "done" /\ ~overflowed) =>
        result[1].pageCount = Declared + (IF hasCoverPage THEN 1 ELSE 0)

FirstDecorated == IF hasCoverPage THEN 1 ELSE 0

\* C18: header and footer are drawn from physical index 1 on with a cover
\* page and from index 0 on without one, so index 0 of a document with a
\* cover page is never decorated; the DOCX cover section has no header or
\* footer and the HTML cover page hides both
C18_CoverPageUndecorated ==
    /\ \A k \in {"header", "footer"} :
          decorated[k] # None =>
             /\ FirstDecorated \in decorated[k][1]
             /\ \A i \in decorated[k][1] : i >= FirstDecorated
             /\ hasCoverPage => 0 \notin decorated[k][1]
    /\ coverSectionProperties \cap {"headers", "footers"} = {}
    /\ {"header", "footer"} \subseteq coverPageHidden

C18_Witness ==
    /\ pc = "done"
    /\ hasCoverPage
    /\ Declared = 1
    /\ decorated.header = Some({1, 2})
    /\ decorated.footer = Some({1, 2})

Starts == SelectSeq(drawLog, LAMBDA e : e.ev = "start")

\* the operations started and not yet finished after the first k events
InProgress(k) ==
    {i \in 1..k :
        /\ drawLog[i].ev = "start"
        /\ ~\E j \in (i + 1)..k :
              drawLog[j] = [drawLog[i] EXCEPT !.ev = "end"]}

Rank(op) ==
    CASE op = "cover" -> 1
      [] op = "header" -> 2
      [] op = "footer" -> 2
      [] op \in {"content", "title"} -> 3
      [] op = "field" -> 4

\* C19: the drawing steps of a run happen in the order cover page, header
\* and footer, content or title, fields; every step has finished before the
\* next begins; the fields are added one at a time in schema order; at no
\* moment are two drawing operations in progress
C19_SequentialFixedOrder ==
    /\ \A k \in 0..Len(drawLog) : Cardinality(InProgress(k)) <= 1
    /\ \A i \in DOMAIN drawLog :
          drawLog[i].ev = "start" =>
             /\ i < Len(drawLog)
             /\ drawLog[i + 1] = [drawLog[i] EXCEPT !.ev = "end"]
    /\ \A i, j \in DOMAIN Starts :
          i < j => \/ Rank(Starts[i].op) < Rank(Starts[j].op)
                   \/ Starts[i].op = "header" /\ Starts[j].op = "footer"
                   \/ /\ Starts[i].op = "field" /\ Starts[j].op = "field"
                      /\ Starts[i].n < Starts[j].n
    /\ LET fieldStarts == SelectSeq(Starts, LAMBDA e : e.op = "field")
       IN  /\ \A i \in DOMAIN fieldStarts : fieldStarts[i].n = i
           /\ Len(fieldStarts) = fieldCount
    /\ pc \in {"fields", "done"} =>
          /\ (\E i \in DOMAIN Starts : Starts[i].op = "cover") <=> hasCoverPage
          /\ \E i \in DOMAIN Starts : Starts[i].op = "header"
          /\ \E i \in DOMAIN Starts : Starts[i].op = "footer"
          /\ \E i \in DOMAIN Starts : Starts[i].op \in {"content", "title"}
    /\ pc = "done" => fieldCount = Len(schema[1].fields)

C19_Witness ==
    /\ pc = "done"
    /\ Len(schema[1].fields) = 2
    /\ Len(drawLog) = 12
    /\ [i \in DOMAIN Starts |-> Starts[i].op] =
          << "cover", "header", "footer", "content", "field", "field" >>

\* C20: a field of an unknown type gets a warning and nothing is drawn for
\* it; the run does not fail, the fields after it are placed, and the
\* finished run has handled every field of the schema
C20_UnknownTypeSkipped ==
    /\ pc # "failed"
    /\ \A i \in DOMAIN placed :
          placed[i].field.type \notin KnownTypes =>
             /\ ~placed[i].drawn
             /\ \E w \in DOMAIN warnings : warnings[w] = i
    /\ \A w \in DOMAIN warnings :
          schema[1].fields[warnings[w]].type \notin KnownTypes
    /\ \A i \in DOMAIN placed :
          /\ placed[i].field.type = schema[1].fields[i].type
          /\ placed[i].field.type \in KnownTypes => placed[i].drawn
    /\ pc = "done" =>
          /\ Len(placed) = Len(schema[1].fields)
          /\ result[1].fieldCount = Len(schema[1].fields)

C20_Witness ==
    /\ pc = "done"
    /\ Len(schema[1].fields) = 2
    /\ schema[1].fields[1].type = "barcode"
    /\ schema[1].fields[2].type = "text"
    /\ warnings = << 1 >>
    /\ ~placed[1].drawn
    /\ placed[2].drawn
    /\ result[1].fieldCount = 2

\* C28: the fieldCount of a completed run is the number of entries of
\* schema.fields: each field is handled and counted exactly once, in schema
\* order, and a field skipped with a warning is counted too
C28_FieldCountIsSchemaLength ==
    /\ pc \in {"fields", "done"} =>
          /\ fieldCount = Len(placed)
          /\ fieldCount <= Len(schema[1].fields)
          /\ \A i \in DOMAIN placed :
                placed[i].field.type = schema[1].fields[i].type
                /\ placed[i].field.page = schema[1].fields[i].page
          /\ \A w \in DOMAIN warnings : warnings[w] <= fieldCount
    /\ result # None =>
          /\ result[1].fieldCount = Len(schema[1].fields)
          /\ result[1].fieldCount = Len(placed)

C28_Witness ==
    /\ result # None
    /\ Len(schema[1].fields) = 2
    /\ schema[1].fields[1].type = "text"
    /\ schema[1].fields[2].type = "barcode"
    /\ warnings = << 2 >>
    /\ placed[1].drawn
    /\ ~placed[2].drawn
    /\ result[1].fieldCount = 2

\* C26: with a cover page no field is placed on physical index 0, the cover
\* page, whatever page count the schema declares (none, 0 or more); and the
\* physical index of every field is one of 0 .. pages.length - 1
C26_FieldsNeverOnCover ==
    \A i \in DOMAIN placed :
        /\ placed[i].field.page >= 1
        /\ hasCoverPage => placed[i].pageIndex # 0
        /\ placed[i].pageIndex \in 0..(Len(ctx[1].pages) - 1)

C26_Witness ==
    /\ pc = "done"
    /\ hasCoverPage
    /\ schema[1].form.pages = Some(0)
    /\ Len(ctx[1].pages) = 2
    /\ Len(placed) = 2
    /\ placed[1].field.page = 1 /\ placed[1].pageIndex = 1
    /\ placed[2].field.page = 3 /\ placed[2].pageIndex = 1

\* C27: adjustFieldPosition does not modify the field it is given: what it
\* returns for a page-1 field differs from the field only in position.y, for
\* another page it returns the field; the schema's fields keep their
\* positions, so a second run on the same schema adjusts each field once,
\* from its original position
C27_AdjustLeavesFieldUnchanged ==
    /\ schema = original
    /\ \A k \in DOMAIN placed :
          LET field == original[1].fields[k]
          IN  placed[k].field =
                 IF field.page = 1
                 THEN [field EXCEPT !.position.y = contentBaselineY + field.position.y]
                 ELSE field

C27_Witness ==
    /\ run = 2
    /\ pc = "done"
    /\ contentBaselineY = 700
    /\ Len(placed) = 2
    /\ schema[1].fields[1].page = 1 /\ schema[1].fields[1].position.y = -50
    /\ placed[1].field.position.y = 650
    /\ schema[1].fields[2].page = 2 /\ placed[2].field = schema[1].fields[2]

FullyPopulated(st) == \A k \in DOMAIN st : st[k] # None

\* C22: a stylesheet file that is missing or unreadable makes the run fall
\* back to the built-in default and does not fail it; the stylesheet a run
\* uses has every property set
C22_StylesheetFallsBack ==
    /\ error # "stylesheet"
    /\ pc \notin {"start", "aborted"} =>
          /\ stylesheet # None
          /\ FullyPopulated(stylesheet[1])
          /\ styleFile \in {"missing", "unreadable"} =>
                stylesheet[1] = getDefaultStylesheet
    /\ stylesheet # None => FullyPopulated(stylesheet[1])

C22_Witness ==
    /\ pc = "done"
    /\ schema[1].form.stylesheet = Some(<< "style.yaml" >>)
    /\ styleFile = "missing"
    /\ stylesheet = Some(getDefaultStylesheet)
    /\ result # None

\* C23: a failure to create the document or to serialize it aborts the
\* call: the caller gets no GeneratedPdf, and generateAndSavePdf writes no
\* file
C23_FatalFailureNoResult ==
    /\ pc = "aborted" =>
          /\ error \in {"document", "save"}
          /\ result = None
          /\ ~written
    /\ error = "document" => ctx = None /\ drawLog = << >>
    /\ written => result # None /\ error = "none" /\ pc = "saved"
    /\ result # None => error = "none"

C23_Witness ==
    /\ pc = "aborted"
    /\ error = "save"
    /\ Len(schema[1].fields) = 2
    /\ fieldCount = 2
    /\ result = None
    /\ ~written

(***************************************************************************)
(* Properties of hexToRgb (checked under SpecHex)                          *)
(***************************************************************************)
Converted == hexArg # None /\ hexOut # None

\* the same six digits written the other way, with or without the #
OtherSpelling(hex) == IF hex[1] = "#" THEN Tail(hex) ELSE << "#" >> \o hex

SixOf(hex) == IF hex[1] = "#" THEN Tail(hex) ELSE hex

PairValue(digits, k) == 16 * HexValue[digits[k]] + HexValue[digits[k + 1]]

\* C25: a six-digit hex string gives the same colour with and without the
\* leading #; each channel is the value of its pair of digits over 255, so
\* it lies within 0..1, 000000 is 0,0,0 and ffffff is 1,1,1
C25_HexPairsOver255 ==
    Converted =>
        LET d == SixOf(hexArg[1])
        IN  /\ hexOut[1] = hexToRgb(OtherSpelling(hexArg[1]))
            /\ hexOut[1] = [red |-> PairValue(d, 1), green |-> PairValue(d, 3),
                            blue |-> PairValue(d, 5)]
            /\ \A ch \in {"red", "green", "blue"} :
                  hexOut[1][ch] \in 0..255
            /\ d = << "0", "0", "0", "0", "0", "0" >> =>
                  hexOut[1] = [red |-> 0, green |-> 0, blue |-> 0]
            /\ d = << "F", "F", "F", "F", "F", "F" >> =>
                  hexOut[1] = [red |-> 255, green |-> 255, blue |-> 255]

C25_Witness ==
    /\ Converted
    /\ hexArg[1] = << "#", "F", "F", "0", "0", "9", "a" >>
    /\ hexOut[1] = [red |-> 255, green |-> 0, blue |-> 154]

(***************************************************************************)
(* Properties of the cover page (checked under SpecCover)                  *)
(***************************************************************************)
Rendered == coverArgs # None /\ coverOut # None

AllLabels ==
    << "Organization", "Department", "Document #", "Type", "Status",
       "Classification", "Date", "Effective Date", "Review Date", "Version",
       "Author", "Prepared By", "Reviewed By", "Approved By" >>

\* the value the schema gives for a label
ValueOf(label) ==
    LET c == coverArgs[1].coverPage
        m == coverArgs[1].formMeta
    IN  CASE label = "Organization" -> c.organization
          [] label = "Department" -> c.department
          [] label = "Document #" -> c.documentNumber
          [] label = "Type" -> c.documentType
          [] label = "Status" -> c.status
          [] label = "Classification" -> c.classification
          [] label = "Date" -> c.date
          [] label = "Effective Date" -> c.effectiveDate
          [] label = "Review Date" -> c.reviewDate
          [] label = "Version" -> m.version
          [] label = "Author" -> m.author
          [] label = "Prepared By" -> c.preparedBy
          [] label = "Reviewed By" -> c.reviewedBy
          [] label = "Approved By" -> c.approvedBy

ExpectedLabels ==
    SelectSeq(AllLabels, LAMBDA l : ValueOf(l) # None /\ ValueOf(l)[1] # << >>)

ExpectedLegal ==
    LET c == coverArgs[1].coverPage
        given == SelectSeq(<< c.copyright, c.disclaimer, c.distributionStatement >>,
                           LAMBDA t : t # None /\ t[1] # << >>)
    IN  [i \in DOMAIN given |-> given[i][1]]

\* the draw calls from the top of the page to its bottom
RECURSIVE TopDown(_)
TopDown(ops) ==
    IF ops = << >> THEN << >>
    ELSE LET i == CHOOSE i \in DOMAIN ops : \A j \in DOMAIN ops : ops[j].y <= ops[i].y
         IN  << ops[i] >> \o TopDown(SubSeq(ops, 1, i - 1) \o SubSeq(ops, i + 1, Len(ops)))

OfKind(seq, kind) == SelectSeq(seq, LAMBDA e : e.kind = kind)

\* the text a browser shows for an escaped text
unescapeHtml(text) ==
    [i \in DOMAIN text |->
        CASE text[i] = "&amp;" -> "&"
          [] text[i] = "&lt;" -> "<"
          [] text[i] = "&gt;" -> ">"
          [] text[i] = "&quot;" -> "\""
          [] text[i] = "&#039;" -> "'"
          [] OTHER -> text[i]]

PdfLabels ==
    LET l == TopDown(OfKind(coverOut[1].pdf.ops, "label"))
    IN  [i \in DOMAIN l |-> l[i].text[1]]

DocxLabels ==
    LET l == OfKind(coverOut[1].docx.children, "meta")
    IN  [i \in DOMAIN l |-> l[i].runs[1][1]]

HtmlLabels ==
    LET l == coverOut[1].html.rows
    IN  [i \in DOMAIN l |-> unescapeHtml(l[i].label)[1]]

PdfLegal ==
    LET l == TopDown(OfKind(coverOut[1].pdf.ops, "legal"))
    IN  [i \in DOMAIN l |-> l[i].text]

DocxLegal ==
    LET l == OfKind(coverOut[1].docx.children, "legal")
    IN  [i \in DOMAIN l |-> l[i].runs[1]]

HtmlLegal ==
    LET l == coverOut[1].html.legal
    IN  [i \in DOMAIN l |-> unescapeHtml(l[i])]

\* C29: the three backends emit the same metadata entries: the labels of the
\* fixed list Organization .. Approved By in that order, without exactly the
\* entries whose value is empty or absent, and the legal texts in the
\* reading order copyright, disclaimer, distribution statement
C29_BackendsAgreeOnCover ==
    Rendered =>
        /\ PdfLabels = ExpectedLabels
        /\ DocxLabels = ExpectedLabels
        /\ HtmlLabels = ExpectedLabels
        /\ PdfLegal = ExpectedLegal
        /\ DocxLegal = ExpectedLegal
        /\ HtmlLegal = ExpectedLegal

C29_Witness ==
    /\ Rendered
    /\ coverArgs[1].coverPage.organization = Some(<< >>)
    /\ PdfLabels = << "Version", "Author", "Approved By" >>
    /\ HtmlLabels = << "Version", "Author", "Approved By" >>
    /\ DocxLegal = << << "(c)", "R", "&", "D" >>, << "As", "is" >>, << "Internal" >> >>
    /\ PdfLegal = DocxLegal
    /\ coverOut[1].html.legal[1] = << "(c)", "R", "&amp;", "D" >>

Named(prop) == coverArgs[1].coverPage[prop] # None

FileOf(prop) == coverArgs[1].files[prop]

HasKind(seq, kind) == \E i \in DOMAIN seq : seq[i].kind = kind

RECURSIVE AloneAfter(_, _, _, _, _)
\* the local variables and the contexts of a call that has run n steps with
\* no other call beside it
AloneAfter(n, st, h, sch, content) ==
    IF n = 0 THEN [run |-> st, heap |-> h, schema |-> sch]
    ELSE LET one == stepRun(1, st, h, sch, content)
         IN  AloneAfter(n - 1, one.run, one.heap, one.schema, content)

Alone(n) ==
    AloneAfter(n, runStart, [i \in 0..2 |-> None],
               shared[1].original, shared[1].content)

\* what a call has computed, whatever the reference of its context
Locals(st) == [st EXCEPT !.ctxRef = 0]

ContextOf(st, h) == IF st.ctxRef = 0 THEN None ELSE h[st.ctxRef]

\* C24: of two generatePdf calls interleaved at their awaits, each owns its
\* LayoutContext: the two hold different context objects, and after every
\* step each call's cursor, page list, baseline, placements and result are
\* those of the same call run alone for as many steps; the schema object
\* both were given is as it was.
C24_ConcurrentCallsIndependent ==
    pair # None =>
       /\ \A r \in 1..2 :
             LET st == pair[1][r]
                 alone == Alone(st.steps)
             IN  /\ Locals(st) = Locals(alone.run)
                 /\ ContextOf(st, heap[1]) = ContextOf(alone.run, alone.heap)
       /\ pair[1][1].ctxRef # 0 /\ pair[1][2].ctxRef # 0 =>
             pair[1][1].ctxRef # pair[1][2].ctxRef
       /\ shared[1].schema = shared[1].original

C24_Witness ==
    /\ pair # None
    /\ shared[1].schema.coverPage
    /\ shared[1].content.overflows
    /\ shared[1].schema.form.pages = None
    /\ Len(shared[1].schema.fields) = 1
    /\ shared[1].schema.fields[1].page = 1
    /\ pair[1][1].pc = "fields"
    /\ pair[1][1].fieldCount = 1
    /\ Len(pair[1][1].placed) = 1
    /\ pair[1][1].placed[1].pageIndex = 1
    /\ pair[1][2].pc = "content"
    /\ pair[1][2].steps = 4
    /\ Len(heap[1][1][1].pages) = 4
    /\ Len(heap[1][2][1].pages) = 3
    /\ heap[1][1][1].cursor # heap[1][2][1].cursor

====
